---- MODULE Spec2Model ----
(***************************************************************************)
(* Verification model of the FreeImageRe codec core: the GIF LZW engine    *)
(* (StringTable), the BMP RLE codecs, file-type detection and the GIF      *)
(* playback compositor.                                                     *)
(***************************************************************************)
EXTENDS Integers, Sequences, FiniteSets, TLC

(***************************************************************************)
(* 32-bit two's-complement arithmetic of the C++ type int.                  *)
(* A value is an integer in -2^31 .. 2^31-1.  A left shift that overflows   *)
(* wraps (what every build of the code produces); a shift by 32 or more is  *)
(* undefined and is flagged by the callers (field ub of the engine).        *)
(***************************************************************************)
RECURSIVE Pow2(_)
Pow2(n) == IF n = 0 THEN 1 ELSE 2 * Pow2(n - 1)

MinInt32 == (-1073741824) - 1073741824

\* the low 31 bits of x, as a natural number
Lo31(x) == IF x >= 0 THEN x ELSE x - MinInt32

RECURSIVE BitAndNat(_, _)
BitAndNat(a, b) ==
  IF a = 0 \/ b = 0 THEN 0
  ELSE (IF a % 2 = 1 /\ b % 2 = 1 THEN 1 ELSE 0) + 2 * BitAndNat(a \div 2, b \div 2)

RECURSIVE BitOrNat(_, _)
BitOrNat(a, b) ==
  IF a = 0 THEN b
  ELSE IF b = 0 THEN a
  ELSE (IF a % 2 = 1 \/ b % 2 = 1 THEN 1 ELSE 0) + 2 * BitOrNat(a \div 2, b \div 2)

And32(x, y) ==
  BitAndNat(Lo31(x), Lo31(y)) + (IF x < 0 /\ y < 0 THEN MinInt32 ELSE 0)

Or32(x, y) ==
  BitOrNat(Lo31(x), Lo31(y)) + (IF x < 0 \/ y < 0 THEN MinInt32 ELSE 0)

\* x << s for 0 <= s <= 31, wrapping
Shl32(x, s) ==
  IF s = 0 THEN x
  ELSE LET lo   == Lo31(x) % Pow2(31 - s)
           sign == (Lo31(x) \div Pow2(31 - s)) % 2
       IN  (IF lo = 0 THEN 0 ELSE lo * Pow2(s)) + (IF sign = 1 THEN MinInt32 ELSE 0)

\* x >> n on int: the arithmetic shift
Sar32(x, n) == IF n >= 31 THEN (IF x < 0 THEN -1 ELSE 0) ELSE x \div Pow2(n)

\* (uint8_t)x
LowByte(x) == x % 256

(***************************************************************************)
(* GIF LZW engine: class StringTable (PluginGIF.cpp).                       *)
(* An engine is a record of the class's fields.  m_strmap is kept as the    *)
(* function from the keys that hold a code (> 0) to that code; m_strings    *)
(* holds the entries written by Decompress, the literal entries             *)
(* 0 .. m_clearCode-1 written by ClearDecompressorTable being <<i>>.        *)
(* ub records that the engine executed a shift by 32 bits or more.          *)
(***************************************************************************)
MAX_LZW_CODE == 4096

\* the object after its constructor and Initialize(minCodeSize)
ClearCompressorTable(st) ==
  [st EXCEPT !.m_strmap = << >>,
             !.m_nextCode = st.m_endCode + 1,
             !.m_prefix = 0,
             !.m_codeSize = st.m_minCodeSize + 1]

ClearDecompressorTable(st) ==
  [st EXCEPT !.m_nextCode = st.m_endCode + 1,
             !.m_codeSize = st.m_minCodeSize + 1,
             !.m_codeMask = Pow2(st.m_minCodeSize + 1) - 1,
             !.m_oldCode = MAX_LZW_CODE]

StringTableNew ==
  [m_done |-> FALSE, m_minCodeSize |-> 0, m_clearCode |-> 0, m_endCode |-> 0,
   m_nextCode |-> 0, m_bpp |-> 0, m_slack |-> 0, m_prefix |-> 0,
   m_codeSize |-> 0, m_codeMask |-> 0, m_oldCode |-> 0,
   m_partial |-> 0, m_partialSize |-> 0, firstPixelPassed |-> 0,
   m_strings |-> << >>, m_strmap |-> << >>,
   m_buffer |-> << >>, m_bufferSize |-> 0, m_bufferPos |-> 0, m_bufferShift |-> 0,
   ub |-> FALSE]

Initialize(st, minCodeSize) ==
  LET clear == IF Pow2(minCodeSize) > MAX_LZW_CODE THEN MAX_LZW_CODE ELSE Pow2(minCodeSize)
      s1 == [st EXCEPT !.m_done = FALSE, !.m_bpp = 8,
                       !.m_minCodeSize = minCodeSize,
                       !.m_clearCode = clear, !.m_endCode = clear + 1,
                       !.m_partial = 0, !.m_partialSize = 0, !.m_bufferSize = 0]
  IN  ClearDecompressorTable(ClearCompressorTable(s1))

\* FillInputBuffer(len) followed by the caller's copy of len bytes into it
FillInputBuffer(st, data) ==
  [st EXCEPT !.m_buffer = data, !.m_bufferSize = Len(data),
             !.m_bufferPos = 0, !.m_bufferShift = 8 - st.m_bpp]

\* m_partial |= code << m_partialSize; m_partialSize += width
PushBits(st, code, width) ==
  IF st.m_partialSize >= 32
  THEN [st EXCEPT !.ub = TRUE, !.m_partialSize = @ + width,
                  !.m_partial = Or32(@, Shl32(code, st.m_partialSize % 32))]
  ELSE [st EXCEPT !.m_partialSize = @ + width,
                  !.m_partial = Or32(@, Shl32(code, st.m_partialSize))]

CompressStart(st, bpp, width) ==
  LET s1 == [st EXCEPT !.m_bpp = bpp, !.m_slack = (8 - ((width * bpp) % 8)) % 8]
  IN  ClearCompressorTable(PushBits(s1, s1.m_clearCode, s1.m_codeSize))

\* while (m_partialSize >= 8 && bufpos - buf < len) *bufpos++ = (uint8_t)m_partial ...
\* r is [st, out]; len < 0 stands for the unbounded loop of CompressEnd
RECURSIVE FlushBytes(_, _, _)
FlushBytes(r, len, least) ==
  IF r.st.m_partialSize >= least /\ (len < 0 \/ Len(r.out) < len)
  THEN FlushBytes([st  |-> [r.st EXCEPT !.m_partial = Sar32(@, 8), !.m_partialSize = @ - 8],
                   out |-> Append(r.out, LowByte(r.st.m_partial))], len, least)
  ELSE r

CompressEnd(st) ==
  LET r1 == FlushBytes([st |-> PushBits(st, st.m_prefix, st.m_codeSize), out |-> << >>], -1, 8)
  IN  FlushBytes([st |-> PushBits(r1.st, r1.st.m_endCode, r1.st.m_codeSize), out |-> r1.out], -1, 1)

\* increment to the next pixel
NextPixel(st) ==
  IF st.m_bufferShift > 0
     /\ ~(st.m_bufferPos + 1 = st.m_bufferSize /\ st.m_bufferShift <= st.m_slack)
  THEN [st EXCEPT !.m_bufferShift = @ - st.m_bpp]
  ELSE [st EXCEPT !.m_bufferPos = @ + 1, !.m_bufferShift = 8 - st.m_bpp]

\* the pixel under the read position
CurrentPixel(st) ==
  (st.m_buffer[st.m_bufferPos + 1] \div Pow2(st.m_bufferShift)) % Pow2(st.m_bpp)

\* the allocation with the width growing one code late
CompressNewStringGrowsLate(r, len, ch, nextprefix) ==
  LET f  == FlushBytes([st |-> PushBits(r.st, r.st.m_prefix, r.st.m_codeSize), out |-> r.out], len, 8)
      s1 == [f.st EXCEPT !.m_strmap = (nextprefix :> f.st.m_nextCode) @@ @]
      s2 == IF s1.m_nextCode = Pow2(s1.m_codeSize) + 1 THEN [s1 EXCEPT !.m_codeSize = @ + 1] ELSE s1
      s3 == [s2 EXCEPT !.m_nextCode = @ + 1]
      s4 == IF s3.m_nextCode = MAX_LZW_CODE
            THEN ClearCompressorTable(PushBits(s3, s3.m_clearCode, s3.m_codeSize))
            ELSE s3
  IN  [st |-> [s4 EXCEPT !.m_prefix = ch], out |-> f.out]

\* one pixel that has no code for <prefix, pixel>: emit the prefix, add the code
CompressNewString(r, len, ch, nextprefix) ==
  LET f  == FlushBytes([st |-> PushBits(r.st, r.st.m_prefix, r.st.m_codeSize), out |-> r.out], len, 8)
      s1 == [f.st EXCEPT !.m_strmap = (nextprefix :> f.st.m_nextCode) @@ @]
      s2 == IF s1.m_nextCode = Pow2(s1.m_codeSize) THEN [s1 EXCEPT !.m_codeSize = @ + 1] ELSE s1
      s3 == [s2 EXCEPT !.m_nextCode = @ + 1]
      s4 == IF s3.m_nextCode = MAX_LZW_CODE
            THEN ClearCompressorTable(PushBits(s3, s3.m_clearCode, s3.m_codeSize))
            ELSE s3
  IN  [st |-> [s4 EXCEPT !.m_prefix = ch], out |-> f.out]

\* one turn of while (m_bufferPos < m_bufferSize); r is the loop's state
\* [st, out, halted, ret, len]
CompressStep(r, len) ==
  IF r.halted THEN r
  ELSE IF r.st.m_bufferPos >= r.st.m_bufferSize
  THEN [r EXCEPT !.st = [r.st EXCEPT !.m_bufferSize = 0],
                 !.halted = TRUE, !.ret = TRUE, !.len = Len(r.out)]
  ELSE LET ch == CurrentPixel(r.st)
           nextprefix == ((r.st.m_prefix * 256) % 1048576) + ch
           r1 == IF r.st.firstPixelPassed # 0
                 THEN IF nextprefix \in DOMAIN r.st.m_strmap
                      THEN [st |-> [r.st EXCEPT !.m_prefix = r.st.m_strmap[nextprefix]], out |-> r.out]
                      ELSE CompressNewString(r, len, ch, nextprefix)
                 ELSE [st |-> [r.st EXCEPT !.firstPixelPassed = 1, !.m_prefix = ch], out |-> r.out]
           full == Len(r1.out) = len
       IN  [st |-> NextPixel(r1.st), out |-> r1.out, halted |-> full, ret |-> full, len |-> len]

\* n turns of the loop (it stops at the first return)
RECURSIVE CompressLoop(_, _, _)
CompressLoop(r, len, n) ==
  IF r.halted \/ n = 0 THEN r
  ELSE IF n = 1 THEN CompressStep(r, len)
  ELSE CompressLoop(CompressLoop(r, len, n \div 2), len, n - (n \div 2))

\* bool Compress(uint8_t *buf, int *len): the new engine, the bytes stored, the
\* value returned and *len on return.  The loop takes one turn per pixel, at
\* most 8 pixels per input byte, and one more to leave.
Compress(st, len) ==
  IF st.m_bufferSize = 0 \/ st.m_done
  THEN [st |-> st, out |-> << >>, halted |-> TRUE, ret |-> FALSE, len |-> len]
  ELSE CompressLoop([st |-> st, out |-> << >>, halted |-> FALSE, ret |-> FALSE, len |-> len],
                    len, 8 * st.m_bufferSize + 1)

\* m_strings[code]
StringAt(st, code) ==
  IF code < st.m_clearCode THEN << code % 256 >>
  ELSE IF code \in DOMAIN st.m_strings THEN st.m_strings[code]
  ELSE << >>

\* the same with entries created at the ceiling too
DecompressCodeGrowsAtCeiling(r, len) ==
  LET code == And32(r.st.m_partial, r.st.m_codeMask)
      s1   == [r.st EXCEPT !.m_partial = Sar32(@, r.st.m_codeSize),
                           !.m_partialSize = @ - r.st.m_codeSize]
      grow == s1.m_oldCode # MAX_LZW_CODE
      first == StringAt(s1, IF code = s1.m_nextCode THEN s1.m_oldCode ELSE code)
      s2 == IF grow
            THEN [s1 EXCEPT !.m_strings =
                    (s1.m_nextCode :> (StringAt(s1, s1.m_oldCode) \o
                        (IF first = << >> THEN << 0 >> ELSE << first[1] >>))) @@ @]
            ELSE s1
      str == StringAt(s2, code)
      n1 == s2.m_nextCode + 1
      s3 == IF grow
            THEN IF n1 < MAX_LZW_CODE /\ And32(n1, s2.m_codeMask) = 0
                 THEN [s2 EXCEPT !.m_nextCode = n1, !.m_codeSize = @ + 1,
                                 !.m_codeMask = Or32(@, n1)]
                 ELSE [s2 EXCEPT !.m_nextCode = n1]
            ELSE s2
  IN  IF code > s1.m_nextCode \/ code = s1.m_endCode
      THEN [r EXCEPT !.st = [s1 EXCEPT !.m_done = TRUE],
                     !.halted = TRUE, !.ret = TRUE, !.len = Len(r.out)]
      ELSE IF code = s1.m_clearCode
      THEN [r EXCEPT !.st = ClearDecompressorTable(s1)]
      ELSE IF Len(str) > len - Len(r.out)
      THEN \* out of space, stuff the code back in for next time
           [r EXCEPT !.st = [s2 EXCEPT !.m_partial = Or32(Shl32(@, s2.m_codeSize), code),
                                       !.m_partialSize = @ + s2.m_codeSize,
                                       !.m_bufferPos = @ + 1],
                     !.halted = TRUE, !.ret = TRUE, !.len = Len(r.out)]
      ELSE [r EXCEPT !.st = [s3 EXCEPT !.m_oldCode = code], !.out = r.out \o str]

\* one code taken from the bit buffer: the body of while (m_partialSize >= m_codeSize)
DecompressCode(r, len) ==
  LET code == And32(r.st.m_partial, r.st.m_codeMask)
      s1   == [r.st EXCEPT !.m_partial = Sar32(@, r.st.m_codeSize),
                           !.m_partialSize = @ - r.st.m_codeSize]
      grow == s1.m_oldCode # MAX_LZW_CODE /\ s1.m_nextCode < MAX_LZW_CODE
      first == StringAt(s1, IF code = s1.m_nextCode THEN s1.m_oldCode ELSE code)
      s2 == IF grow
            THEN [s1 EXCEPT !.m_strings =
                    (s1.m_nextCode :> (StringAt(s1, s1.m_oldCode) \o
                        (IF first = << >> THEN << 0 >> ELSE << first[1] >>))) @@ @]
            ELSE s1
      str == StringAt(s2, code)
      n1 == s2.m_nextCode + 1
      s3 == IF grow
            THEN IF n1 < MAX_LZW_CODE /\ And32(n1, s2.m_codeMask) = 0
                 THEN [s2 EXCEPT !.m_nextCode = n1, !.m_codeSize = @ + 1,
                                 !.m_codeMask = Or32(@, n1)]
                 ELSE [s2 EXCEPT !.m_nextCode = n1]
            ELSE s2
  IN  IF code > s1.m_nextCode \/ code = s1.m_endCode
      THEN [r EXCEPT !.st = [s1 EXCEPT !.m_done = TRUE],
                     !.halted = TRUE, !.ret = TRUE, !.len = Len(r.out)]
      ELSE IF code = s1.m_clearCode
      THEN [r EXCEPT !.st = ClearDecompressorTable(s1)]
      ELSE IF Len(str) > len - Len(r.out)
      THEN \* out of space, stuff the code back in for next time
           [r EXCEPT !.st = [s2 EXCEPT !.m_partial = Or32(Shl32(@, s2.m_codeSize), code),
                                       !.m_partialSize = @ + s2.m_codeSize,
                                       !.m_bufferPos = @ + 1],
                     !.halted = TRUE, !.ret = TRUE, !.len = Len(r.out)]
      ELSE [r EXCEPT !.st = [s3 EXCEPT !.m_oldCode = code], !.out = r.out \o str]

\* one turn of the for loop over the input bytes (phase "byte": its head) or of
\* the while loop inside it (phase "code"); r is [st, out, phase, halted, ret, len]
DecompressStep(r, len) ==
  IF r.halted THEN r
  ELSE IF r.phase = "byte"
  THEN IF r.st.m_bufferPos >= r.st.m_bufferSize
       THEN [r EXCEPT !.st = [r.st EXCEPT !.m_bufferSize = 0],
                      !.halted = TRUE, !.ret = TRUE, !.len = Len(r.out)]
       ELSE [r EXCEPT !.st = PushBits(r.st, r.st.m_buffer[r.st.m_bufferPos + 1], 8),
                      !.phase = "code"]
  ELSE IF r.st.m_partialSize < r.st.m_codeSize
       THEN [r EXCEPT !.st = [r.st EXCEPT !.m_bufferPos = @ + 1], !.phase = "byte"]
       ELSE DecompressCode(r, len)

RECURSIVE DecompressLoop(_, _, _)
DecompressLoop(r, len, n) ==
  IF r.halted \/ n = 0 THEN r
  ELSE IF n = 1 THEN DecompressStep(r, len)
  ELSE DecompressLoop(DecompressLoop(r, len, n \div 2), len, n - (n \div 2))

\* bool Decompress(uint8_t *buf, int *len).  Every turn of either loop consumes
\* an input byte or at least one bit of the bit buffer, which holds at most
\* 32 bits on entry.
Decompress(st, len) ==
  IF st.m_bufferSize = 0 \/ st.m_done
  THEN [st |-> st, out |-> << >>, phase |-> "byte", halted |-> TRUE, ret |-> FALSE, len |-> len]
  ELSE DecompressLoop([st |-> st, out |-> << >>, phase |-> "byte",
                       halted |-> FALSE, ret |-> FALSE, len |-> len],
                      len, 10 * st.m_bufferSize + 40)

Done(st) == [st EXCEPT !.m_done = TRUE]

(***************************************************************************)
(* State.                                                                   *)
(***************************************************************************)
VARIABLES
  lzwSrc,   \* the image being compressed: [bpp, width, rows, pixels, chunked]
  enc,      \* StringTable compressing with the output sizes under test
  renc,     \* StringTable compressing the same rows, its output buffer never full
  encOut,   \* bytes stored so far by enc
  refOut,   \* bytes stored so far by renc
  dec,      \* StringTable decompressing refOut with the output sizes under test
  rdec,     \* StringTable decompressing refOut, its output buffer never full
  decOut,   \* bytes returned so far by dec
  refDec,   \* bytes returned so far by rdec
  lz        \* the client's position: [pc, row, pos, last]

lzwVars == << lzwSrc, enc, renc, encOut, refOut, dec, rdec, decOut, refDec, lz >>

VARIABLES
  dStream,  \* the bytes of the stream behind the handle
  dPos,     \* the stream position
  dHandle,  \* whether the handle is non-null
  dEnabled, \* the codecs whose node is enabled
  dOracle,  \* the codecs, among those validated outside these sources, that accept the stream
  dt        \* FreeImage_GetFileTypeFromHandle: [pc, idx, fif, entry, probes]

detVars == << dStream, dPos, dHandle, dEnabled, dOracle, dt >>

VARIABLES
  rImg,     \* the raster buffer given to Save: [bpp, width, height, rows]
  rFile,    \* the pixel data of the file: the bytes written by Save, read by Load
  rTarget,  \* Save's buffer for one encoded line
  rDib,     \* the destination the decoder writes: rows of bytes
  rOob,     \* the writes that went outside the destination: << row, column >>
  rd        \* the decoder's locals, and pc: "run", "true" or "false"

rleVars == << rImg, rFile, rTarget, rDib, rOob, rd >>

VARIABLES
  pFrames,  \* the frames of the file: control block, rectangle, pixels
  pCanvas,  \* the logical area being composed: the pixels of the dib in memory order
  pOob,     \* the addresses written past the end of the dib
  pp        \* Load in playback mode: [pc, start, end, page, pageinfo, decoded]

playVars == << pFrames, pCanvas, pOob, pp >>

VARIABLES
  hStream,  \* the bytes of the stream given to Load
  hFile,    \* the file the stream was cut from, and what a loader has to find in it
  hl        \* Load up to the pixel data: position, reads, locals, result

hdrVars == << hStream, hFile, hl >>

VARIABLES
  am  \* the allocations of one load or save: [op, pc, n, failAt, failed, live, ret, fault]

allocVars == << am >>

VARIABLES
  tStream,  \* the bytes of a stream, whole or cut, sound or corrupt
  tl  \* one loop of a decoder over it: [kind, pc, pos, turns, ...]

termVars == << tStream, tl >>

VARIABLES
  iw  \* the walk of Load or of Save through the rows of a frame

walkVars == << iw >>

VARIABLES
  cwSrc,  \* the image whose rows are compressed
  cw  \* the compressor inside Compress: the call, the row and the state of its loop

widthVars == << cwSrc, cw >>

VARIABLES
  zIn,  \* the minimum code size byte and the compressed bytes of a frame
  zd  \* the decompressor on them: the call, the position and the state of its loops

decVars == << zIn, zd >>

VARIABLES
  pnSrc,  \* the pixel data of a PCX file of 4 planes
  pn  \* Load of that file, row by row

planeVars == << pnSrc, pn >>

vars == << lzwVars, detVars, rleVars, playVars, hdrVars, allocVars, termVars, walkVars, widthVars, decVars, planeVars >>

\* each part of the engine runs with the others at rest
LzwIdle ==
  /\ lzwSrc = << >> /\ enc = << >> /\ renc = << >> /\ encOut = << >> /\ refOut = << >>
  /\ dec = << >> /\ rdec = << >> /\ decOut = << >> /\ refDec = << >> /\ lz = << >>

DetIdle ==
  /\ dStream = << >> /\ dPos = 0 /\ dHandle = FALSE /\ dEnabled = {} /\ dOracle = {}
  /\ dt = << >>

RleIdle ==
  /\ rImg = << >> /\ rFile = << >> /\ rTarget = << >> /\ rDib = << >> /\ rOob = {}
  /\ rd = << >>

PlayIdle == pFrames = << >> /\ pCanvas = << >> /\ pOob = {} /\ pp = << >>

HdrIdle == hStream = << >> /\ hFile = << >> /\ hl = << >>

AllocIdle == am = << >>

TermIdle == tStream = << >> /\ tl = << >>

WalkIdle == iw = << >>

WidthIdle == cwSrc = << >> /\ cw = << >>

DecIdle == zIn = << >> /\ zd = << >>

PlanesIdle == pnSrc = << >> /\ pn = << >>

LzwFrame == UNCHANGED << detVars, rleVars, playVars, hdrVars, allocVars, termVars, walkVars, widthVars, decVars, planeVars >>
DetFrame == UNCHANGED << lzwVars, rleVars, playVars, hdrVars, allocVars, termVars, walkVars, widthVars, decVars, planeVars >>
RleFrame == UNCHANGED << lzwVars, detVars, playVars, hdrVars, allocVars, termVars, walkVars, widthVars, decVars, planeVars >>
PlayFrame == UNCHANGED << lzwVars, detVars, rleVars, hdrVars, allocVars, termVars, walkVars, widthVars, decVars, planeVars >>
HdrFrame == UNCHANGED << lzwVars, detVars, rleVars, playVars, allocVars, termVars, walkVars, widthVars, decVars, planeVars >>
AllocFrame == UNCHANGED << lzwVars, detVars, rleVars, playVars, hdrVars, termVars, walkVars, widthVars, decVars, planeVars >>
TermFrame == UNCHANGED << lzwVars, detVars, rleVars, playVars, hdrVars, allocVars, walkVars, widthVars, decVars, planeVars >>
WalkFrame == UNCHANGED << lzwVars, detVars, rleVars, playVars, hdrVars, allocVars, termVars, widthVars, decVars, planeVars >>
WidthFrame == UNCHANGED << lzwVars, detVars, rleVars, playVars, hdrVars, allocVars, termVars, walkVars, decVars, planeVars >>
DecFrame == UNCHANGED << lzwVars, detVars, rleVars, playVars, hdrVars, allocVars, termVars, walkVars, widthVars, planeVars >>
PlanesFrame == UNCHANGED << lzwVars, detVars, rleVars, playVars, hdrVars, allocVars, termVars, walkVars, widthVars, decVars >>

(***************************************************************************)
(* Clients of the LZW engine.  The compressing client is Save's: Initialize *)
(* and CompressStart, then for each row FillInputBuffer and Compress until  *)
(* it returns false, then CompressEnd.  The decompressing client is Load's: *)
(* Initialize, then for each sub-block FillInputBuffer and Decompress until *)
(* it returns false.  The output buffer sizes and the sub-block sizes are   *)
(* the clients' choice.                                                     *)
(***************************************************************************)
MaxWidth   == 3     \* widths of the small images
MaxHeight  == 2     \* heights of the small images (0: no pixel at all)
MaxPattern == 7     \* pixel patterns of the small images
MaxChunk   == 2     \* output buffers of 1 .. MaxChunk bytes, and the unbounded one
RampLen    == 17    \* one row of RampLen distinct 8-bit pixels
LongWidth  == 128   \* the image that fills the code table: LongWidth x LongHeight
LongHeight == 31
Unbounded  == 1000000

GIF_SUBBLOCK == 255
BITS_PER_BYTE == 8

\* bytes of a row of width pixels: FreeImage_GetLine
GetLine(width, bpp) == (width * bpp + 7) \div 8

\* the byte at index b (from 0) of a row holding the pixels px, most significant
\* first; k counts the pixels of the byte already placed
RECURSIVE PackByte(_, _, _, _)
PackByte(bpp, px, b, k) ==
  IF k = BITS_PER_BYTE \div bpp THEN 0
  ELSE (IF b * (BITS_PER_BYTE \div bpp) + k + 1 <= Len(px)
        THEN px[b * (BITS_PER_BYTE \div bpp) + k + 1] * Pow2(BITS_PER_BYTE - bpp * (k + 1))
        ELSE 0)
       + PackByte(bpp, px, b, k + 1)

PackRow(bpp, px) == [b \in 1..GetLine(Len(px), bpp) |-> PackByte(bpp, px, b - 1, 0)]

\* pixel i (from 0) of pattern p: the two extreme palette indices, period 3
PatternPixel(bpp, p, i) == ((p \div Pow2(i % 3)) % 2) * (Pow2(bpp) - 1)

SmallImage(bpp, w, h, p) ==
  LET px(y) == [x \in 1..w |-> PatternPixel(bpp, p, y * w + x - 1)]
  IN  [bpp |-> bpp, width |-> w,
       rows |-> [y \in 1..h |-> PackRow(bpp, px(y - 1))],
       pixels |-> [i \in 1..(w * h) |-> PatternPixel(bpp, p, i - 1)],
       chunked |-> TRUE]

RampImage ==
  LET px == [x \in 1..RampLen |-> 199 + x]
  IN  [bpp |-> 8, width |-> RampLen, rows |-> << px >>, pixels |-> px, chunked |-> TRUE]

\* no two neighbouring pixels repeat as a pair: every pixel makes a new code
LongPixel(i) == ((i % 256) * (2 * (i \div 256) + 1)) % 256

LongImage ==
  [bpp |-> 8, width |-> LongWidth,
   rows |-> [y \in 1..LongHeight |-> [x \in 1..LongWidth |-> LongPixel((y - 1) * LongWidth + x - 1)]],
   pixels |-> [i \in 1..(LongWidth * LongHeight) |-> LongPixel(i - 1)],
   chunked |-> FALSE]

LzwInputs ==
  { SmallImage(bpp, w, h, p) : bpp \in {1, 4, 8}, w \in 1..MaxWidth, h \in 0..MaxHeight, p \in 0..MaxPattern }
    \cup { RampImage, LongImage }

\* the output buffer sizes tried on an image
ChunkSizes(img) == IF img.chunked THEN 1..MaxChunk \cup {Unbounded} ELSE {Unbounded}
\* the sub-block sizes tried on an image
BlockSizes(img) == IF img.chunked THEN {1, GIF_SUBBLOCK} ELSE {GIF_SUBBLOCK}

\* Save: b = bpp == 1 ? 2 : bpp, the LZW minimum code size
MinCodeSize(bpp) == IF bpp = 1 THEN 2 ELSE bpp

LzwStart(img) ==
  CompressStart(Initialize(StringTableNew, MinCodeSize(img.bpp)), img.bpp, img.width)

LzwInit ==
  /\ lzwSrc \in LzwInputs
  /\ enc = LzwStart(lzwSrc)
  /\ renc = LzwStart(lzwSrc)
  /\ encOut = << >>
  /\ refOut = << >>
  /\ dec = Initialize(StringTableNew, MinCodeSize(lzwSrc.bpp))
  /\ rdec = Initialize(StringTableNew, MinCodeSize(lzwSrc.bpp))
  /\ decOut = << >>
  /\ refDec = << >>
  /\ lz = [pc |-> "fill", row |-> 0, pos |-> 0, last |-> 0]
  /\ DetIdle
  /\ RleIdle
  /\ PlayIdle
  /\ HdrIdle
  /\ AllocIdle
  /\ TermIdle
  /\ WalkIdle
  /\ WidthIdle
  /\ DecIdle
  /\ PlanesIdle

\* memcpy(stringtable->FillInputBuffer(line), scanline, line) for the next row;
\* the reference engine compresses the row at once
EncFill ==
  /\ lz.pc = "fill"
  /\ lz.row < Len(lzwSrc.rows)
  /\ LET data == lzwSrc.rows[lz.row + 1]
         r    == Compress(FillInputBuffer(renc, data), Unbounded)
     IN  /\ enc' = FillInputBuffer(enc, data)
         /\ renc' = r.st
         /\ refOut' = refOut \o r.out
  /\ lz' = [lz EXCEPT !.pc = "compress", !.row = @ + 1]
  /\ UNCHANGED << lzwSrc, encOut, dec, rdec, decOut, refDec >>
  /\ LzwFrame

\* while (stringtable->Compress(bufptr, &size)) { bufptr += size; ... }
EncCompress ==
  /\ lz.pc = "compress"
  /\ ~enc.ub
  /\ \E len \in ChunkSizes(lzwSrc) :
       LET r == Compress(enc, len)
       IN  /\ enc' = r.st
           /\ encOut' = encOut \o r.out
           /\ lz' = [lz EXCEPT !.pc = IF r.ret THEN "compress" ELSE "fill", !.last = Len(r.out)]
  /\ UNCHANGED << lzwSrc, renc, refOut, dec, rdec, decOut, refDec >>
  /\ LzwFrame

\* w = stringtable->CompressEnd(last), after the last row
EncEnd ==
  /\ lz.pc = "fill"
  /\ lz.row = Len(lzwSrc.rows)
  /\ ~enc.ub
  /\ LET e == CompressEnd(enc)
         r == CompressEnd(renc)
     IN  /\ enc' = e.st
         /\ encOut' = encOut \o e.out
         /\ renc' = r.st
         /\ refOut' = refOut \o r.out
         /\ lz' = [lz EXCEPT !.pc = "dfill", !.last = Len(e.out)]
  /\ UNCHANGED << lzwSrc, dec, rdec, decOut, refDec >>
  /\ LzwFrame

\* io->read_proc(stringtable->FillInputBuffer(b), b, 1, handle) for the next sub-block;
\* the reference engine decompresses the sub-block at once
DecFill ==
  /\ lz.pc = "dfill"
  /\ lz.pos < Len(refOut)
  /\ \E b \in BlockSizes(lzwSrc) :
       LET n    == IF lz.pos + b > Len(refOut) THEN Len(refOut) - lz.pos ELSE b
           data == SubSeq(refOut, lz.pos + 1, lz.pos + n)
           r    == Decompress(FillInputBuffer(rdec, data), Unbounded)
       IN  /\ dec' = FillInputBuffer(dec, data)
           /\ rdec' = r.st
           /\ refDec' = refDec \o r.out
           /\ lz' = [lz EXCEPT !.pc = "decompress", !.pos = @ + n]
  /\ UNCHANGED << lzwSrc, enc, renc, encOut, refOut, decOut >>
  /\ LzwFrame

\* while (stringtable->Decompress(buf, &size)) { ... }
DecDecompress ==
  /\ lz.pc = "decompress"
  /\ ~dec.ub
  /\ \E len \in ChunkSizes(lzwSrc) :
       LET r == Decompress(dec, len)
       IN  /\ dec' = r.st
           /\ decOut' = decOut \o r.out
           /\ lz' = [lz EXCEPT !.pc = IF r.ret THEN "decompress" ELSE "dfill", !.last = Len(r.out)]
  /\ UNCHANGED << lzwSrc, enc, renc, encOut, refOut, rdec, refDec >>
  /\ LzwFrame

\* the block terminator: no sub-block is left
DecEnd ==
  /\ lz.pc = "dfill"
  /\ lz.pos = Len(refOut)
  /\ lz' = [lz EXCEPT !.pc = "done"]
  /\ UNCHANGED << lzwSrc, enc, renc, encOut, refOut, dec, rdec, decOut, refDec >>
  /\ LzwFrame

LzwNext == EncFill \/ EncCompress \/ EncEnd \/ DecFill \/ DecDecompress \/ DecEnd

SpecLZW == LzwInit /\ [][LzwNext]_vars

IsPrefix(a, b) == Len(a) <= Len(b) /\ a = SubSeq(b, 1, Len(a))

(***************************************************************************)
(* File type detection.                                                     *)
(***************************************************************************)
MaxEntry    == 1   \* the handle's position at the call: 0 .. MaxEntry
MaxDisabled == 1   \* codecs disabled at the call: at most MaxDisabled

FIF_UNKNOWN == "UNKNOWN"

\* the codecs, in the order of their registration
Registry == << "BMP", "PCX", "TIFF", "GIF", "SGI", "J2K", "RAW" >>

\* io->read_proc(buffer, size, count, handle): as fread, the bytes left in the
\* stream up to size * count are copied, the position moves past them and the
\* number of whole items is returned
ReadProc(stream, pos, size, count) ==
  LET want == size * count
      left == IF pos < Len(stream) THEN Len(stream) - pos ELSE 0
      n    == IF want < left THEN want ELSE left
  IN  [data |-> SubSeq(stream, pos + 1, pos + n),
       items |-> IF size = 0 THEN 0 ELSE n \div size,
       pos |-> pos + n]

\* a buffer after the read: the bytes read at its start, the rest as it was
Overwrite(buffer, data) ==
  [i \in 1..Len(buffer) |-> IF i <= Len(data) THEN data[i] ELSE buffer[i]]

\* Validate knowing the signature "BM" only
BmpValidateOneSignature(stream, pos) ==
  LET r == ReadProc(stream, pos, 1, 2)
  IN  [ret |-> Overwrite(<< 0, 0 >>, r.data) = << 66, 77 >>, pos |-> r.pos]

\* PluginBMP.cpp Validate
BmpValidate(stream, pos) ==
  LET bmp_signature1 == << 66, 77 >>
      bmp_signature2 == << 66, 65 >>
      r == ReadProc(stream, pos, 1, 2)
      signature == Overwrite(<< 0, 0 >>, r.data)
  IN  [ret |-> signature = bmp_signature1 \/ signature = bmp_signature2, pos |-> r.pos]

\* PluginGIF.cpp Validate
GifValidate(stream, pos) ==
  LET GIF89a == << 71, 73, 70, 56, 57, 97 >>
      GIF87a == << 71, 73, 70, 56, 55, 97 >>
      r == ReadProc(stream, pos, 1, 6)
      signature == Overwrite(<< 0, 0, 0, 0, 0, 0 >>, r.data)
  IN  [ret |-> signature = GIF89a \/ signature = GIF87a, pos |-> r.pos]

\* PluginPCX.cpp pcx_validate
PcxValidate(stream, pos) ==
  LET pcx_signature == 10
      r == ReadProc(stream, pos, 1, 4)
      signature == Overwrite(<< 0, 0, 0, 0 >>, r.data)
  IN  [ret |-> /\ r.items = 4
               /\ signature[1] = pcx_signature
               /\ signature[2] <= 5
               /\ signature[3] \in {0, 1}
               /\ signature[4] \in {1, 8},
       pos |-> r.pos]

\* PluginSGI.cpp Validate
SgiValidate(stream, pos) ==
  LET sgi_signature == << 1, 218 >>
      r == ReadProc(stream, pos, 1, 2)
      signature == Overwrite(<< 0, 0 >>, r.data)
  IN  [ret |-> signature = sgi_signature, pos |-> r.pos]

\* PluginJ2K.cpp Validate: tell_proc, read_proc, seek_proc back
J2kValidate(stream, pos) ==
  LET jpc_signature == << 255, 79 >>
      tell == pos
      r == ReadProc(stream, pos, 1, 2)
      signature == Overwrite(<< 0, 0 >>, r.data)
  IN  [ret |-> signature = jpc_signature, pos |-> tell]

\* a codec validated outside these sources: it reads a bounded prefix and
\* accepts or not; it accepts no empty stream
OtherValidate(fif, stream, pos, oracle) ==
  LET r == ReadProc(stream, pos, 1, 4)
  IN  [ret |-> fif \in oracle /\ r.items > 0, pos |-> r.pos]

PluginValidate(fif, stream, pos, oracle) ==
  CASE fif = "BMP" -> BmpValidate(stream, pos)
    [] fif = "GIF" -> GifValidate(stream, pos)
    [] fif = "PCX" -> PcxValidate(stream, pos)
    [] fif = "SGI" -> SgiValidate(stream, pos)
    [] fif = "J2K" -> J2kValidate(stream, pos)
    [] OTHER -> OtherValidate(fif, stream, pos, oracle)

\* node->Validate leaving the stream where the plugin's Validate left it
NodeValidateNoRestore(fif, stream, pos, oracle) == PluginValidate(fif, stream, pos, oracle)

\* node->Validate(io, handle): the entry point is stored before the plugin's
\* Validate is called and restored after
NodeValidate(fif, stream, pos, oracle) ==
  LET tell == pos
      v == PluginValidate(fif, stream, pos, oracle)
  IN  [ret |-> v.ret, pos |-> tell]

\* a loop that does not ask whether the node is enabled
IsEnabledIgnored(fif, enabled) == TRUE

\* node->IsEnabled()
IsEnabled(fif, enabled) == fif \in enabled

\* FreeImage_ValidateFIF(fif, io, handle): the codec's node, when enabled, validates
FreeImage_ValidateFIF(fif, enabled, stream, pos, oracle) ==
  IF IsEnabled(fif, enabled)
  THEN NodeValidate(fif, stream, pos, oracle)
  ELSE [ret |-> FALSE, pos |-> pos]

\* the stream heads: the signatures, each signature with one byte changed, their
\* prefixes, and each followed by one more byte
Signatures ==
  { << 66, 77 >>, << 66, 65 >>,
    << 71, 73, 70, 56, 57, 97 >>, << 71, 73, 70, 56, 55, 97 >>,
    << 10, 5, 1, 8 >>, << 10, 0, 0, 1 >>,
    << 1, 218 >>, << 255, 79 >>, << 73, 73, 42, 0 >> }

NearSignatures ==
  UNION { { [s EXCEPT ![k] = (@ + 1) % 256] : k \in 1..Len(s) } : s \in Signatures } \ Signatures

StreamBodies ==
  LET heads == Signatures \cup NearSignatures
  IN  UNION { { SubSeq(h, 1, n) : n \in 0..Len(h) } \cup { h \o << 0 >> } : h \in heads }

OracleSets == { {}, {"TIFF"}, {"RAW"}, {"TIFF", "RAW"} }

Codecs == { Registry[i] : i \in 1..Len(Registry) }

DetInit ==
  /\ \E body \in StreamBodies, e \in 0..MaxEntry :
       /\ dStream = [i \in 1..e |-> 66] \o body
       /\ dPos = e
  /\ dHandle \in BOOLEAN
  /\ \E off \in SUBSET Codecs : Cardinality(off) <= MaxDisabled /\ dEnabled = Codecs \ off
  /\ dOracle \in OracleSets
  /\ dt = [pc |-> "call", idx |-> 1, fif |-> FIF_UNKNOWN, entry |-> dPos, probes |-> << >>]
  /\ LzwIdle
  /\ RleIdle
  /\ PlayIdle
  /\ HdrIdle
  /\ AllocIdle
  /\ TermIdle
  /\ WalkIdle
  /\ WidthIdle
  /\ DecIdle
  /\ PlanesIdle

\* FREE_IMAGE_FORMAT deducedFif{ FIF_UNKNOWN }; if (handle) ...
DetCall ==
  /\ dt.pc = "call"
  /\ dt' = [dt EXCEPT !.pc = IF dHandle THEN "loop" ELSE "tiff", !.entry = dPos]
  /\ UNCHANGED << dStream, dPos, dHandle, dEnabled, dOracle >>
  /\ DetFrame

\* one turn of the loop over the nodes of the registry
DetLoop ==
  /\ dt.pc = "loop"
  /\ dt.idx <= Len(Registry)
  /\ LET fif == Registry[dt.idx]
         v   == NodeValidate(fif, dStream, dPos, dOracle)
     IN  IF IsEnabled(fif, dEnabled)
         THEN /\ dPos' = v.pos
              /\ dt' = [dt EXCEPT !.probes = Append(@, [fif |-> fif, pos |-> dPos, ret |-> v.ret, via |-> "loop"]),
                                  !.fif = IF v.ret THEN fif ELSE @,
                                  !.pc = IF v.ret THEN "tiff" ELSE @,
                                  !.idx = IF v.ret THEN @ ELSE @ + 1]
         ELSE /\ dPos' = dPos
              /\ dt' = [dt EXCEPT !.idx = @ + 1]
  /\ UNCHANGED << dStream, dHandle, dEnabled, dOracle >>
  /\ DetFrame

\* the loop has gone through every node
DetLoopEnd ==
  /\ dt.pc = "loop"
  /\ dt.idx > Len(Registry)
  /\ dt' = [dt EXCEPT !.pc = "tiff"]
  /\ UNCHANGED << dStream, dPos, dHandle, dEnabled, dOracle >>
  /\ DetFrame

\* a return that probes RAW again whatever the loop found
DetReturnAlwaysReprobes ==
  /\ dt.pc = "tiff"
  /\ LET v == FreeImage_ValidateFIF("RAW", dEnabled, dStream, dPos, dOracle)
     IN  /\ dPos' = v.pos
         /\ dt' = [dt EXCEPT !.pc = "done",
                             !.probes = IF dt.fif = "TIFF"
                                        THEN Append(@, [fif |-> "RAW", pos |-> dPos, ret |-> v.ret, via |-> "reprobe"])
                                        ELSE @,
                             !.fif = IF v.ret THEN "RAW" ELSE @]
  /\ UNCHANGED << dStream, dHandle, dEnabled, dOracle >>
  /\ DetFrame

\* if (deducedFif == FIF_TIFF) { if (FreeImage_ValidateFIF(FIF_RAW, io, handle)) ... } return
DetReturn ==
  /\ dt.pc = "tiff"
  /\ LET v == FreeImage_ValidateFIF("RAW", dEnabled, dStream, dPos, dOracle)
     IN  IF dt.fif = "TIFF"
         THEN /\ dPos' = v.pos
              /\ dt' = [dt EXCEPT !.pc = "done",
                                  !.probes = Append(@, [fif |-> "RAW", pos |-> dPos, ret |-> v.ret, via |-> "reprobe"]),
                                  !.fif = IF v.ret THEN "RAW" ELSE @]
         ELSE /\ dPos' = dPos
              /\ dt' = [dt EXCEPT !.pc = "done"]
  /\ UNCHANGED << dStream, dHandle, dEnabled, dOracle >>
  /\ DetFrame

DetNext == DetCall \/ DetLoop \/ DetLoopEnd \/ DetReturn

SpecDetect == DetInit /\ [][DetNext]_vars


(***************************************************************************)
(* Run-length decoders of the BMP plugin.                                   *)
(***************************************************************************)
RLE_COMMAND     == 0
RLE_ENDOFLINE   == 0
RLE_ENDOFBITMAP == 1
RLE_DELTA       == 2

\* a size no stream reaches: what a negative int becomes as the unsigned size of read_proc
HugeSize == 2147483647
AsUnsigned(n) == IF n < 0 THEN HugeSize ELSE n

MIN(a, b) == IF a < b THEN a ELSE b
Abs(n) == IF n < 0 THEN 0 - n ELSE n

\* FreeImage_Allocate: height rows of line bytes, all zero
AllocateRows(line, height) == [y \in 1..Abs(height) |-> [x \in 1..line |-> 0]]

\* one byte stored at column col of row, a destination of line columns: outside
\* them the write is recorded, the destination is left as it is
StoreByte(w, row, col, line, value) ==
  IF row + 1 \in DOMAIN w.dib /\ col >= 0 /\ col < line
  THEN [w EXCEPT !.dib[row + 1][col + 1] = value]
  ELSE [w EXCEPT !.oob = @ \cup { << row, col >> }]

\* the bytes data stored from column col on, each as StoreByte stores it
StoreBytes(w, row, col, line, data) ==
  LET inside(x) == row + 1 \in DOMAIN w.dib /\ x >= 0 /\ x < line
      outside == { << row, col + k - 1 >> : k \in { h \in 1..Len(data) : ~inside(col + h - 1) } }
  IN  [dib |-> IF row + 1 \in DOMAIN w.dib
               THEN [w.dib EXCEPT ![row + 1] =
                       [x \in DOMAIN w.dib[row + 1] |->
                          IF x - 1 >= col /\ x - 1 < col + Len(data) /\ inside(x - 1)
                          THEN data[x - col] ELSE w.dib[row + 1][x]]]
               ELSE w.dib,
       oob |-> w.oob \cup outside]

\* value stored count times from column col on
StoreRun(w, row, col, line, value, count) ==
  StoreBytes(w, row, col, line, [k \in 1..count |-> value])

\* LoadPixelDataRLE8, absolute mode: status_byte literal bytes follow
Rle8Absolute(d, stream, w, status_byte) ==
  IF d.scanline >= Abs(d.height) THEN [d |-> [d EXCEPT !.pc = "true"], w |-> w]
  ELSE
    LET count == MIN(status_byte, d.width - d.bits)
        r     == ReadProc(stream, d.pos, AsUnsigned(count), 1)
        w1    == StoreBytes(w, d.scanline, d.bits, d.width, r.data)
        pad   == ReadProc(stream, r.pos, 1, 1)
    IN  IF r.items # 1 THEN [d |-> [d EXCEPT !.pc = "false", !.pos = r.pos], w |-> w1]
        ELSE IF status_byte % 2 = 1 /\ pad.items # 1
        THEN [d |-> [d EXCEPT !.pc = "false", !.pos = pad.pos], w |-> w1]
        ELSE [d |-> [d EXCEPT !.pos = IF status_byte % 2 = 1 THEN pad.pos ELSE r.pos,
                              !.bits = @ + status_byte],
              w |-> w1]

\* LoadPixelDataRLE8, the position delta
Rle8Delta(d, stream, w) ==
  LET dx == ReadProc(stream, d.pos, 1, 1)
      dy == ReadProc(stream, dx.pos, 1, 1)
  IN  IF dx.items # 1 THEN [d |-> [d EXCEPT !.pc = "false", !.pos = dx.pos], w |-> w]
      ELSE IF dy.items # 1 THEN [d |-> [d EXCEPT !.pc = "false", !.pos = dy.pos], w |-> w]
      ELSE [d |-> [d EXCEPT !.pos = dy.pos, !.bits = @ + dx.data[1], !.scanline = @ + dy.data[1]],
            w |-> w]

\* LoadPixelDataRLE8, encoded mode: second_byte repeated status_byte times
Rle8Encoded(d, stream, w, status_byte) ==
  IF d.scanline >= Abs(d.height) THEN [d |-> [d EXCEPT !.pc = "true"], w |-> w]
  ELSE
    LET count == MIN(status_byte, d.width - d.bits)
        r     == ReadProc(stream, d.pos, 1, 1)
    IN  IF r.items # 1 THEN [d |-> [d EXCEPT !.pc = "false", !.pos = r.pos], w |-> w]
        ELSE [d |-> [d EXCEPT !.pos = r.pos, !.bits = IF count > 0 THEN @ + count ELSE @],
              w |-> StoreRun(w, d.scanline, d.bits, d.width, r.data[1], count)]

\* LoadPixelDataRLE8: one turn of for (;;)
Rle8Turn(d, stream, w) ==
  LET r1 == ReadProc(stream, d.pos, 1, 1)
      d1 == [d EXCEPT !.pos = r1.pos]
      r2 == ReadProc(stream, d1.pos, 1, 1)
      d2 == [d1 EXCEPT !.pos = r2.pos]
  IN  IF r1.items # 1 THEN [d |-> [d1 EXCEPT !.pc = "false"], w |-> w]
      ELSE IF r1.data[1] # RLE_COMMAND THEN Rle8Encoded(d1, stream, w, r1.data[1])
      ELSE IF r2.items # 1 THEN [d |-> [d2 EXCEPT !.pc = "false"], w |-> w]
      ELSE IF r2.data[1] = RLE_ENDOFLINE
        THEN [d |-> [d2 EXCEPT !.bits = 0, !.scanline = @ + 1], w |-> w]
      ELSE IF r2.data[1] = RLE_ENDOFBITMAP THEN [d |-> [d2 EXCEPT !.pc = "true"], w |-> w]
      ELSE IF r2.data[1] = RLE_DELTA THEN Rle8Delta(d2, stream, w)
      ELSE Rle8Absolute(d2, stream, w, r2.data[1])


\* the nibble of second_byte the i-th pixel of a run takes
Rle4Nibble(second_byte, i) ==
  IF i % 2 = 1 THEN second_byte % 16 ELSE (second_byte \div 16) % 16

\* LoadPixelDataRLE4, absolute mode: pixel i of status_byte, one byte read every two pixels
RECURSIVE Rle4Literals(_, _, _, _, _, _)
Rle4Literals(d, stream, w, i, status_byte, second_byte) ==
  IF i >= status_byte THEN [d |-> d, w |-> w]
  ELSE
    LET r  == ReadProc(stream, d.pos, 1, 1)
        sb == IF i % 2 = 0 THEN (IF r.items = 1 THEN r.data[1] ELSE 0) ELSE second_byte
        d1 == IF i % 2 = 0 THEN [d EXCEPT !.pos = r.pos] ELSE d
    IN  IF i % 2 = 0 /\ r.items # 1 THEN [d |-> [d1 EXCEPT !.pc = "false"], w |-> w]
        ELSE Rle4Literals([d1 EXCEPT !.q = @ + 1], stream,
                          StoreByte(w, 0, d1.q, d1.end, Rle4Nibble(sb, i)),
                          i + 1, status_byte, sb)

Rle4Absolute(d, stream, w, declared) ==
  LET status_byte == MIN(declared, d.end - d.q)
      lit == Rle4Literals(d, stream, w, 0, status_byte, 0)
      pad == ReadProc(stream, lit.d.pos, 1, 1)
  IN  IF lit.d.pc = "false" THEN lit
      ELSE IF status_byte % 4 \in {1, 2}
      THEN [d |-> [lit.d EXCEPT !.pos = pad.pos, !.bits = @ + status_byte,
                                !.pc = IF pad.items # 1 THEN "false" ELSE @],
            w |-> lit.w]
      ELSE [d |-> [lit.d EXCEPT !.bits = @ + status_byte], w |-> lit.w]

RECURSIVE Rle4Run(_, _, _, _, _, _)
Rle4Run(w, q, end, second_byte, i, status_byte) ==
  IF i >= status_byte THEN w
  ELSE Rle4Run(StoreByte(w, 0, q, end, Rle4Nibble(second_byte, i)), q + 1, end,
               second_byte, i + 1, status_byte)

\* LoadPixelDataRLE4, encoded mode: the two nibbles of second_byte in turn
Rle4Encoded(d, stream, w, declared) ==
  LET status_byte == MIN(declared, d.end - d.q)
      r == ReadProc(stream, d.pos, 1, 1)
  IN  IF r.items # 1 THEN [d |-> [d EXCEPT !.pc = "false", !.pos = r.pos], w |-> w]
      ELSE [d |-> [d EXCEPT !.pos = r.pos, !.q = @ + status_byte, !.bits = @ + status_byte],
            w |-> Rle4Run(w, d.q, d.end, r.data[1], 0, status_byte)]

Rle4Delta(d, stream, w) ==
  LET dx == ReadProc(stream, d.pos, 1, 1)
      dy == ReadProc(stream, dx.pos, 1, 1)
  IN  IF dx.items # 1 THEN [d |-> [d EXCEPT !.pc = "false", !.pos = dx.pos], w |-> w]
      ELSE IF dy.items # 1 THEN [d |-> [d EXCEPT !.pc = "false", !.pos = dy.pos], w |-> w]
      ELSE [d |-> [d EXCEPT !.pos = dy.pos, !.bits = @ + dx.data[1],
                            !.scanline = @ + dy.data[1],
                            !.q = (d.scanline + dy.data[1]) * d.width + d.bits + dx.data[1]],
            w |-> w]

\* LoadPixelDataRLE4: the conversion of the staging buffer into the rows of the dib
Rle4Convert(pixels, width, height) ==
  [y \in 1..height |->
     [b \in 1..GetLine(width, 4) |->
        pixels[(y - 1) * width + 2 * b - 1] * 16
          + (IF 2 * b <= width THEN pixels[(y - 1) * width + 2 * b] ELSE 0)]]

\* LoadPixelDataRLE4: one turn of the for loop; d.pc is "convert" when the loop is left
Rle4Turn(d, stream, w) ==
  LET r1 == ReadProc(stream, d.pos, 1, 1)
      d1 == [d EXCEPT !.pos = r1.pos]
      r2 == ReadProc(stream, d1.pos, 1, 1)
      d2 == [d1 EXCEPT !.pos = r2.pos]
  IN  IF d.scanline >= Abs(d.height) \/ d.q < 0 \/ d.q >= d.end
        THEN [d |-> [d EXCEPT !.pc = "convert"], w |-> w]
      ELSE IF r1.items # 1 THEN [d |-> [d1 EXCEPT !.pc = "false"], w |-> w]
      ELSE IF r1.data[1] # 0 THEN Rle4Encoded(d1, stream, w, r1.data[1])
      ELSE IF r2.items # 1 THEN [d |-> [d2 EXCEPT !.pc = "false"], w |-> w]
      ELSE IF r2.data[1] = RLE_ENDOFLINE
        THEN [d |-> [d2 EXCEPT !.bits = 0, !.scanline = @ + 1, !.q = (d.scanline + 1) * d.width],
              w |-> w]
      ELSE IF r2.data[1] = RLE_ENDOFBITMAP THEN [d |-> [d2 EXCEPT !.q = d.end], w |-> w]
      ELSE IF r2.data[1] = RLE_DELTA THEN Rle4Delta(d2, stream, w)
      ELSE Rle4Absolute(d2, stream, w, r2.data[1])

(***************************************************************************)
(* The line decoder of the PCX plugin and the row decoder of the SGI one.   *)
(***************************************************************************)
PCX_IO_BUF_SIZE == 2048

\* ReadBuf is kept as its leading bytes: the bytes after them are the zeros of make_unique
BufAt(buf, i) == IF i < Len(buf) THEN buf[i + 1] ELSE 0

\* data copied into the buffer from index offset on
BufStore(buf, offset, data) ==
  LET top == IF Len(buf) > offset + Len(data) THEN Len(buf) ELSE offset + Len(data)
  IN  [i \in 1..top |-> IF i > offset /\ i <= offset + Len(data) THEN data[i - offset]
                        ELSE IF i <= Len(buf) THEN buf[i] ELSE 0]

\* readLine: the refill of ReadBuf when at most one byte of it is left
PcxRefill(d, stream) ==
  IF d.ReadPos < PCX_IO_BUF_SIZE - 1 THEN d
  ELSE IF d.ReadPos = PCX_IO_BUF_SIZE - 1
  THEN LET r == ReadProc(stream, d.pos, 1, PCX_IO_BUF_SIZE - 1)
       IN  [d EXCEPT !.ReadPos = 0, !.pos = r.pos,
                     !.ReadBuf = BufStore(BufStore(@, 0, << BufAt(@, PCX_IO_BUF_SIZE - 1) >>),
                                          1, r.data)]
  ELSE LET r == ReadProc(stream, d.pos, 1, PCX_IO_BUF_SIZE)
       IN  [d EXCEPT !.ReadPos = 0, !.pos = r.pos, !.ReadBuf = BufStore(@, 0, r.data)]

\* readLine, count == 0: the next value of ReadBuf, with its count when it is a run
PcxNextValue(d) ==
  LET value == BufAt(d.ReadBuf, d.ReadPos)
  IN  IF BitAndNat(value, 192) = 192
      THEN [d EXCEPT !.count = BitAndNat(value, 63),
                     !.value = BufAt(d.ReadBuf, d.ReadPos + 1), !.ReadPos = @ + 2]
      ELSE [d EXCEPT !.count = 1, !.value = value, !.ReadPos = @ + 1]

\* readLine, run-length encoded read: one turn of while (length--); count is a uint8_t
PcxRunByte(d, stream, oob) ==
  LET d1 == IF d.count = 0 THEN PcxNextValue(PcxRefill(d, stream)) ELSE d
      w  == StoreByte([dib |-> << d.line >>, oob |-> oob], 0, d.written, d.lineLength, d1.value)
  IN  [d |-> [d1 EXCEPT !.count = (@ + 255) % 256, !.written = @ + 1, !.line = w.dib[1]],
       oob |-> w.oob]

\* readLine, normal read: the bytes read are in the line, written is the number of items
PcxNormalRead(d, stream, oob) ==
  LET r == ReadProc(stream, d.pos, d.lineLength, 1)
      w == StoreBytes([dib |-> << d.line >>, oob |-> oob], 0, 0, d.lineLength, r.data)
  IN  [d |-> [d EXCEPT !.pos = r.pos, !.written = r.items, !.line = w.dib[1]], oob |-> w.oob]

\* Load, 1 plane of 1 or 8 bits: the line read is copied into the row of the dib and
\* the rest of the line is skipped, in ReadBuf while it lasts and in the stream after
PcxRowEnd(d, stream, dib, oob) ==
  LET toSkip == d.lineLength - d.written
      inBuf  == IF d.ReadPos < PCX_IO_BUF_SIZE THEN MIN(toSkip, PCX_IO_BUF_SIZE - d.ReadPos) ELSE 0
      sk     == ReadProc(stream, d.pos, 1, toSkip - inBuf)
  IN  [d |-> [d EXCEPT !.ReadPos = @ + inBuf, !.pos = sk.pos, !.y = @ + 1,
                       !.written = 0, !.count = 0, !.value = 0,
                       !.pc = IF d.y + 1 >= d.height THEN "true" ELSE "run"],
       w |-> StoreBytes([dib |-> dib, oob |-> oob], d.height - 1 - d.y, 0, d.pitch,
                        SubSeq(d.line, 1, MIN(d.pitch, d.lineLength)))]

EOF_SGI == 0 - 1

\* get_rlechar, while (0 == cnt): the first byte that is not zero, or EOF
SgiCount(stream, pos) ==
  LET nz == { i \in (pos + 1)..Len(stream) : stream[i] # 0 }
  IN  IF nz = {} THEN [cnt |-> EOF_SGI, pos |-> IF pos < Len(stream) THEN Len(stream) ELSE pos]
      ELSE LET i == CHOOSE j \in nz : \A h \in nz : j <= h
           IN  [cnt |-> stream[i], pos |-> i]

\* get_rlechar, val == -1: the sample is the next byte of the stream
RleCharLiteral(d, r) ==
  [d |-> [d EXCEPT !.pos = r.pos], ch |-> IF r.items < 1 THEN EOF_SGI ELSE r.data[1]]

\* get_rlechar after pstatus->cnt--
RleCharTake(d, stream) ==
  IF d.val = 0 - 1 THEN RleCharLiteral(d, ReadProc(stream, d.pos, 1, 1))
  ELSE [d |-> d, ch |-> d.val]

\* get_rlechar, a run: its value r is read
RleCharValue(d, stream, r) ==
  IF r.items < 1 THEN [d |-> [d EXCEPT !.pos = r.pos], ch |-> EOF_SGI]
  ELSE RleCharTake([d EXCEPT !.pos = r.pos, !.val = r.data[1], !.cnt = @ - 1], stream)

\* get_rlechar, !pstatus->cnt: the count c has been read
RleCharStart(d, stream, c) ==
  IF c.cnt = EOF_SGI THEN [d |-> [d EXCEPT !.pos = c.pos], ch |-> EOF_SGI]
  ELSE IF BitAndNat(c.cnt, 128) # 0
    THEN RleCharTake([d EXCEPT !.pos = c.pos, !.cnt = BitAndNat(c.cnt, 127) - 1, !.val = 0 - 1],
                     stream)
  ELSE RleCharValue([d EXCEPT !.cnt = BitAndNat(c.cnt, 127)], stream,
                    ReadProc(stream, c.pos, 1, 1))

\* get_rlechar: ch is the sample or EOF
get_rlechar(d, stream) ==
  IF d.cnt = 0 THEN RleCharStart(d, stream, SgiCount(stream, d.pos))
  ELSE RleCharTake([d EXCEPT !.cnt = @ - 1], stream)

\* Load, not run-length encoded: ch is the number of items read, never EOF
SgiPlainChar(d, r) ==
  [d |-> [d EXCEPT !.pos = r.pos], ch |-> IF r.items = 1 THEN r.data[1] ELSE 0]

\* Load: the channel offsets of the samples, and the samples of a pixel
SgiOffset(zsize, i) ==
  LET offset_table == << 2, 1, 0, 3 >>
  IN  IF i = 0 THEN (IF zsize < 3 THEN 0 ELSE offset_table[1])
      ELSE IF i = 1 /\ zsize = 2 THEN 3
      ELSE offset_table[i + 1]

SgiChannels(zsize) == IF zsize = 2 THEN 4 ELSE zsize

\* Load, zsize 2: the first channel copied to the second and the third
SgiFakeRGBA(dib, width) ==
  [y \in DOMAIN dib |->
     [x \in 1..(4 * width) |->
        IF (x - 1) % 4 \in {1, 2} THEN dib[y][x - ((x - 1) % 4)] ELSE dib[y][x]]]

\* Load: the loop counters after sample k of row j of channel i
SgiAdvance(d) ==
  LET lastK   == d.k + 1 >= d.width
      lastRow == lastK /\ d.scanline + 1 >= d.height
  IN  [d EXCEPT !.k = IF lastK THEN 0 ELSE @ + 1,
                !.scanline = IF lastRow THEN 0 ELSE IF lastK THEN @ + 1 ELSE @,
                !.chan = IF lastRow THEN @ + 1 ELSE @,
                !.pc = IF lastRow /\ d.chan + 1 >= d.zsize THEN "true" ELSE "run"]

\* Load: sample k of row j of channel i stored; g is the sample read
SgiStore(d, g, w) ==
  IF g.ch = EOF_SGI THEN [d |-> [g.d EXCEPT !.pc = "false"], w |-> w]
  ELSE LET w1 == StoreByte(w, d.scanline, d.k * SgiChannels(d.zsize) + SgiOffset(d.zsize, d.chan),
                           d.width * SgiChannels(d.zsize), g.ch % 256)
           d1 == SgiAdvance(g.d)
       IN  [d |-> d1,
            w |-> IF d1.pc = "true" /\ d.zsize = 2
                  THEN [w1 EXCEPT !.dib = SgiFakeRGBA(@, d.width)] ELSE w1]

\* Load: one turn of for (k ...); at k = 0 of a run-length encoded row the status
\* is reset and the stream is moved to the entry pri of the row index
SgiSampleStep(d, stream, w, pri) ==
  IF d.rle
  THEN SgiStore(d, get_rlechar(IF d.k = 0 THEN [d EXCEPT !.cnt = 0, !.pos = pri] ELSE d, stream), w)
  ELSE SgiStore(d, SgiPlainChar(d, ReadProc(stream, d.pos, 1, 1)), w)

MaxRleWidth  == 2   \* widths 1 .. MaxRleWidth of the images decoded from arbitrary bytes
MaxRleHeight == 2   \* heights 1 .. MaxRleHeight, and the top-down height -1
MaxCmds      == 3   \* the arbitrary streams: at most MaxCmds pieces of the menu
MaxLineLength == 5  \* PCX: bytes_per_line 1 .. MaxLineLength, beside a dib pitch of 4
MaxOffset    == 2   \* SGI: the entries of the row index are 0 .. MaxOffset

\* the pieces the arbitrary RLE streams are made of: runs, escapes, literal runs, a cut
RleMenu ==
  { << 1, 17 >>, << 3, 34 >>, << 0, 0 >>, << 0, 1 >>, << 0, 2, 1, 0 >>, << 0, 2, 0, 1 >>,
    << 0, 3, 51, 68, 85, 0 >>, << 0, 4, 1, 2, 3, 4 >>, << 0 >> }

\* PCX: a literal, a run of 3, a run of 0, a run of 6, a run marker without its value
PcxMenu == { << 7 >>, << 195, 9 >>, << 192, 8 >>, << 198, 5 >>, << 193 >> }

\* SGI: a run of 2, 2 literals, a zero count, a run of 1, a literal count of 0, a
\* literal count without data
SgiMenu == { << 2, 9 >>, << 130, 7, 8 >>, << 0 >>, << 1, 5 >>, << 128, 4 >>, << 129 >> }

RECURSIVE Streams(_, _)
Streams(menu, n) ==
  IF n = 0 THEN { << >> }
  ELSE LET shorter == Streams(menu, n - 1)
       IN  shorter \cup { s \o m : s \in shorter, m \in menu }

RleHeights == { -1 } \cup 1..MaxRleHeight

DecoderStart(kind, width, height) ==
  [kind |-> kind, pc |-> "run", pos |-> 0, scanline |-> 0, bits |-> 0,
   width |-> width, height |-> height, q |-> 0, end |-> Abs(height) * width]

\* Load of PluginPCX before its row loop: line and ReadBuf zeroed, ReadBuf taken as used up
PcxStart(lineLength, height, rle) ==
  [kind |-> "PCX", pc |-> "run", pos |-> 0, y |-> 0, height |-> height,
   lineLength |-> lineLength, pitch |-> 4, rle |-> rle,
   ReadPos |-> PCX_IO_BUF_SIZE, ReadBuf |-> << >>, line |-> [i \in 1..lineLength |-> 0],
   written |-> 0, count |-> 0, value |-> 0]

\* Load of PluginSGI before its row loop
SgiStart(width, height, zsize, rle) ==
  [kind |-> "SGI", pc |-> "run", pos |-> 0, chan |-> 0, scanline |-> 0, k |-> 0,
   width |-> width, height |-> height, zsize |-> zsize, rle |-> rle, cnt |-> 0, val |-> 0]

\* a BMP of 8 or 4 bits with compression BI_RLE8 or BI_RLE4, a PCX of one plane or
\* an SGI of one or two channels, each with arbitrary pixel data
RleFuzzInit ==
  /\ rImg = << >>
  /\ rTarget = << >>
  /\ rOob = {}
  /\ \/ /\ rFile \in Streams(RleMenu, MaxCmds)
        /\ \E kind \in {"RLE8", "RLE4"}, width \in 1..MaxRleWidth, height \in RleHeights :
             /\ rd = DecoderStart(kind, width, height)
             /\ rDib = IF kind = "RLE8" THEN AllocateRows(width, height)
                       ELSE << [i \in 1..(Abs(height) * width) |-> 0] >>
     \/ /\ rFile \in Streams(PcxMenu, MaxCmds)
        /\ \E lineLength \in 1..MaxLineLength, height \in 1..MaxRleHeight, rle \in BOOLEAN :
             /\ rd = PcxStart(lineLength, height, rle)
             /\ rDib = AllocateRows(4, height)
     \/ /\ rFile \in Streams(SgiMenu, MaxCmds)
        /\ \E width \in 1..MaxRleWidth, height \in 1..MaxRleHeight, zsize \in 1..2,
              rle \in BOOLEAN :
             /\ rd = SgiStart(width, height, zsize, rle)
             /\ rDib = AllocateRows(width * SgiChannels(zsize), height)
  /\ LzwIdle
  /\ DetIdle
  /\ PlayIdle
  /\ HdrIdle
  /\ AllocIdle
  /\ TermIdle
  /\ WalkIdle
  /\ WidthIdle
  /\ DecIdle
  /\ PlanesIdle

\* LoadPixelDataRLE8: one turn of its loop
Rle8Step ==
  /\ rd.kind = "RLE8"
  /\ rd.pc = "run"
  /\ LET t == Rle8Turn(rd, rFile, [dib |-> rDib, oob |-> rOob])
     IN  /\ rd' = t.d
         /\ rDib' = t.w.dib
         /\ rOob' = t.w.oob
  /\ UNCHANGED << rImg, rFile, rTarget >>
  /\ RleFrame

\* LoadPixelDataRLE4: one turn of its loop, or the conversion that follows the loop
Rle4Step ==
  /\ rd.kind = "RLE4"
  /\ rd.pc = "run"
  /\ LET t == Rle4Turn(rd, rFile, [dib |-> rDib, oob |-> rOob])
     IN  IF t.d.pc = "convert"
         THEN /\ rd' = [t.d EXCEPT !.pc = "true"]
              /\ rDib' = Rle4Convert(rDib[1], rd.width, Abs(rd.height))
              /\ rOob' = rOob
         ELSE /\ rd' = t.d
              /\ rDib' = t.w.dib
              /\ rOob' = t.w.oob
  /\ UNCHANGED << rImg, rFile, rTarget >>
  /\ RleFrame

\* readLine of a run-length encoded PCX: one byte of the line
PcxByte ==
  /\ rd.kind = "PCX"
  /\ rd.pc = "run"
  /\ rd.rle
  /\ rd.written < rd.lineLength
  /\ LET t == PcxRunByte(rd, rFile, rOob)
     IN  /\ rd' = t.d
         /\ rOob' = t.oob
  /\ UNCHANGED << rImg, rFile, rTarget, rDib >>
  /\ RleFrame

\* Load of PluginPCX: the end of a row of its loop, after the normal read of the
\* line when the file is not run-length encoded
PcxLine ==
  /\ rd.kind = "PCX"
  /\ rd.pc = "run"
  /\ rd.rle => rd.written = rd.lineLength
  /\ LET r == IF rd.rle THEN [d |-> rd, oob |-> rOob] ELSE PcxNormalRead(rd, rFile, rOob)
         t == PcxRowEnd(r.d, rFile, rDib, r.oob)
     IN  /\ rd' = t.d
         /\ rDib' = t.w.dib
         /\ rOob' = t.w.oob
  /\ UNCHANGED << rImg, rFile, rTarget >>
  /\ RleFrame

\* Load of PluginSGI: one sample; pri is the entry of the row index of its row
SgiSample ==
  /\ rd.kind = "SGI"
  /\ rd.pc = "run"
  /\ \E pri \in 0..MaxOffset :
       /\ (~rd.rle \/ rd.k # 0) => pri = 0
       /\ LET t == SgiSampleStep(rd, rFile, [dib |-> rDib, oob |-> rOob], pri)
          IN  /\ rd' = t.d
              /\ rDib' = t.w.dib
              /\ rOob' = t.w.oob
  /\ UNCHANGED << rImg, rFile, rTarget >>
  /\ RleFrame

RleFuzzNext == Rle8Step \/ Rle4Step \/ PcxByte \/ PcxLine \/ SgiSample

SpecRleFuzz == RleFuzzInit /\ [][RleFuzzNext]_vars


(***************************************************************************)
(* Save of the BMP plugin with BMP_SAVE_RLE, and Load of what it wrote.     *)
(* The build is the little-endian one with the BGR colour order.  The file  *)
(* is kept as its pixel data, rFile; the fields of its headers that Load    *)
(* reads back (width, height, bit count, compression) are those of rImg.    *)
(***************************************************************************)
CalculatePitch(line) == ((line + 3) \div 4) * 4

POOL_FULL == 254

\* target[target_pos++] = byte; a store past the end of target is recorded in oob
RleEmit(e, byte) ==
  IF e.target_pos < Len(e.target)
  THEN [e EXCEPT !.target[e.target_pos + 1] = byte, !.target_pos = @ + 1]
  ELSE [e EXCEPT !.oob = @ \cup { << 0 - 1, e.target_pos >> }, !.target_pos = @ + 1]

\* memcpy(target + target_pos, buffer, buffer_size); target_pos += buffer_size
RleCopy(e, buffer) ==
  [target |-> [x \in 1..Len(e.target) |->
                 IF x > e.target_pos /\ x <= e.target_pos + Len(buffer)
                 THEN buffer[x - e.target_pos] ELSE e.target[x]],
   target_pos |-> e.target_pos + Len(buffer),
   oob |-> e.oob \cup { << 0 - 1, x - 1 >> :
                        x \in { h \in (e.target_pos + 1)..(e.target_pos + Len(buffer)) :
                                h > Len(e.target) } }]

\* the pool written as one literal run, without the byte that pads an odd run
WritePoolUnpadded(e, buffer) ==
  IF Len(buffer) = 0 THEN e
  ELSE IF Len(buffer) = RLE_DELTA
    THEN RleEmit(RleEmit(RleEmit(RleEmit(e, 1), buffer[1]), 1), buffer[2])
  ELSE IF Len(buffer) = RLE_ENDOFBITMAP THEN RleEmit(RleEmit(e, Len(buffer)), buffer[1])
  ELSE RleCopy(RleEmit(RleEmit(e, RLE_COMMAND), Len(buffer)), buffer)

\* RLEEncodeLine, switch (buffer_size): the pool written before a run or at the end of
\* the line; the byte that pads an odd literal run is skipped, not stored
WritePool(e, buffer) ==
  IF Len(buffer) = 0 THEN e
  ELSE IF Len(buffer) = RLE_DELTA
    THEN RleEmit(RleEmit(RleEmit(RleEmit(e, 1), buffer[1]), 1), buffer[2])
  ELSE IF Len(buffer) = RLE_ENDOFBITMAP THEN RleEmit(RleEmit(e, Len(buffer)), buffer[1])
  ELSE LET c == RleCopy(RleEmit(RleEmit(e, RLE_COMMAND), Len(buffer)), buffer)
       IN  IF Len(buffer) % 2 = 1 THEN [c EXCEPT !.target_pos = @ + 1] ELSE c

\* RLEEncodeLine, if (buffer_size == 254): the full pool written as one literal run
WriteFullPool(p) ==
  IF Len(p.buffer) = POOL_FULL
  THEN [e |-> RleCopy(RleEmit(RleEmit(p.e, RLE_COMMAND), Len(p.buffer)), p.buffer),
        buffer |-> << >>]
  ELSE p

\* RLEEncodeLine: buffer[buffer_size++] = byte, and the pool written when it is full
PoolPush(p, byte) == WriteFullPool([p EXCEPT !.buffer = Append(@, byte)])

\* RLEEncodeLine, the while loop: the last index j of the block of equal bytes that
\* starts at i, at most 254 past i (indices from 0)
RunEnd(source, size, i) ==
  LET jmax  == POOL_FULL + i
      stops == { j \in (i + 1)..MIN(size - 1, jmax) :
                   ~(j < size - 1 /\ j < jmax /\ source[j + 1] = source[j + 2]) }
  IN  CHOOSE j \in stops : \A h \in stops : j <= h

\* RLEEncodeLine: a block of 2 or 3 equal bytes put into the pool
PoolPushBlock(p, byte, n) ==
  IF n = 2 THEN PoolPush(PoolPush(p, byte), byte)
  ELSE PoolPush(PoolPush(PoolPush(p, byte), byte), byte)

\* RLEEncodeLine: one turn of for (i ...); p is the target and the pool
RLEEncodeTurn(source, size, i, p) ==
  IF i < size - 1 /\ source[i + 1] = source[i + 2]
  THEN LET j == RunEnd(source, size, i)
       IN  IF (j - i) + 1 > 3
           THEN [i |-> j + 1,
                 p |-> WriteFullPool(
                         [e |-> RleEmit(RleEmit(WritePool(p.e, p.buffer), (j - i) + 1),
                                        source[i + 1]),
                          buffer |-> << >>])]
           ELSE [i |-> j + 1, p |-> WriteFullPool(PoolPushBlock(p, source[i + 1], (j - i) + 1))]
  ELSE [i |-> i + 1, p |-> PoolPush(p, source[i + 1])]

\* RLEEncodeLine after its loop: the last bytes and the END_OF_LINE marker
RLEEncodeEnd(p) ==
  RleEmit(RleEmit(WritePool(p.e, p.buffer), RLE_COMMAND), RLE_ENDOFLINE)

\* LoadPixelData, height > 0: one read of height * pitch bytes into the bits
LoadPixelData(stream, pos, dib, height, pitch) ==
  LET r    == ReadProc(stream, pos, height * pitch, 1)
      flat == [n \in 1..(height * pitch) |->
                 IF n <= Len(r.data) THEN r.data[n]
                 ELSE dib[((n - 1) \div pitch) + 1][((n - 1) % pitch) + 1]]
  IN  [ret |-> r.items = 1, pos |-> r.pos,
       dib |-> [y \in 1..height |-> [x \in 1..pitch |-> flat[(y - 1) * pitch + x]]]]

\* FreeImage_GetBits: the rows of the dib one after the other
RECURSIVE GetBits(_)
GetBits(rows) == IF rows = << >> THEN << >> ELSE rows[1] \o GetBits(Tail(rows))


MaxBmpWidth  == 6    \* 8-bit images of one row: widths 1 .. MaxBmpWidth, every row over BmpBytes
MaxBmpWidth2 == 3    \* 8-bit images of two rows: widths 1 .. MaxBmpWidth2
LongBmpWidth == 520  \* 8-bit images of one long row: runs and pools beyond 255 and 254
MaxRawWidth  == 2    \* images of the other depths: widths 1 .. MaxRawWidth
MaxRawHeight == 2    \* and heights 1 .. MaxRawHeight
MaxSeed      == 2    \* their bytes follow one of the patterns 0 .. MaxSeed

\* pixel values that are also the escape codes of the format
BmpBytes == { RLE_COMMAND, RLE_ENDOFBITMAP, RLE_DELTA }

\* a row of line bytes padded with zeros to the pitch
PadRow(row) == row \o [k \in 1..(CalculatePitch(Len(row)) - Len(row)) |-> 0]

\* the long rows: one value; no two neighbours equal; a pool that fills up inside a
\* block of 3, then a block longer than 255, then a tail without equal neighbours
LongRowPixel(kind, i) ==
  IF kind = 0 THEN 7
  ELSE IF kind = 1 THEN i % 251
  ELSE IF i < 253 THEN i % 5
  ELSE IF i < 256 THEN 9
  ELSE IF i < 515 THEN 8
  ELSE i % 3

RawByte(seed, n) == ((n + 1) * (37 * seed + 85)) % 256

SmallRows(width) == [1..width -> BmpBytes]

BmpInputs ==
       { [bpp |-> 8, width |-> Len(r), height |-> 1, bits |-> << PadRow(r) >>] :
           r \in UNION { SmallRows(w) : w \in 1..MaxBmpWidth } }
  \cup UNION { { [bpp |-> 8, width |-> w, height |-> 2, bits |-> << PadRow(r1), PadRow(r2) >>] :
                   r1 \in SmallRows(w), r2 \in SmallRows(w) } : w \in 1..MaxBmpWidth2 }
  \cup { [bpp |-> 8, width |-> LongBmpWidth, height |-> 1,
          bits |-> << PadRow([i \in 1..LongBmpWidth |-> LongRowPixel(kind, i - 1)]) >>] :
           kind \in 0..2 }
  \cup { [bpp |-> bpp, width |-> w, height |-> h,
          bits |-> [y \in 1..h |->
                      [x \in 1..CalculatePitch(GetLine(w, bpp)) |->
                         RawByte(seed, (y - 1) * CalculatePitch(GetLine(w, bpp)) + x)]]] :
           bpp \in {1, 4, 16, 24, 32}, w \in 1..MaxRawWidth, h \in 1..MaxRawHeight,
           seed \in 0..MaxSeed }

\* Save entered with BMP_SAVE_RLE: the target buffer of the encoder is zeroed
SaveInit ==
  /\ rImg \in BmpInputs
  /\ rFile = << >>
  /\ rTarget = IF rImg.bpp = 8
               THEN [k \in 1..(2 * CalculatePitch(GetLine(rImg.width, 8))) |-> 0] ELSE << >>
  /\ rDib = << >>
  /\ rOob = {}
  /\ rd = [kind |-> "SAVE", pc |-> "encode", y |-> 0, i |-> 0, buffer |-> << >>, target_pos |-> 0]
  /\ LzwIdle
  /\ DetIdle
  /\ PlayIdle
  /\ HdrIdle
  /\ AllocIdle
  /\ TermIdle
  /\ WalkIdle
  /\ WidthIdle
  /\ DecIdle
  /\ PlanesIdle

\* RLEEncodeLine on scanline y: one turn of its for loop
EncodeTurn ==
  /\ rd.kind = "SAVE" /\ rd.pc = "encode"
  /\ rImg.bpp = 8
  /\ rd.y < rImg.height
  /\ rd.i < GetLine(rImg.width, 8)
  /\ LET t == RLEEncodeTurn(rImg.bits[rd.y + 1], GetLine(rImg.width, 8), rd.i,
                            [e |-> [target |-> rTarget, target_pos |-> rd.target_pos, oob |-> rOob],
                             buffer |-> rd.buffer])
     IN  /\ rd' = [rd EXCEPT !.i = t.i, !.buffer = t.p.buffer, !.target_pos = t.p.e.target_pos]
         /\ rTarget' = t.p.e.target
         /\ rOob' = t.p.e.oob
  /\ UNCHANGED << rImg, rFile, rDib >>
  /\ RleFrame

\* Save: RLEEncodeLine returns the size of the line and write_proc writes it
SaveLine ==
  /\ rd.kind = "SAVE" /\ rd.pc = "encode"
  /\ rImg.bpp = 8
  /\ rd.y < rImg.height
  /\ rd.i >= GetLine(rImg.width, 8)
  /\ LET e == RLEEncodeEnd([e |-> [target |-> rTarget, target_pos |-> rd.target_pos, oob |-> rOob],
                            buffer |-> rd.buffer])
     IN  /\ rFile' = rFile \o SubSeq(e.target, 1, MIN(e.target_pos, Len(e.target)))
         /\ rTarget' = e.target
         /\ rOob' = e.oob
         /\ rd' = [rd EXCEPT !.y = @ + 1, !.i = 0, !.buffer = << >>, !.target_pos = 0]
  /\ UNCHANGED << rImg, rDib >>
  /\ RleFrame

\* Save after the last line: the end-of-bitmap pair
SaveEnd ==
  /\ rd.kind = "SAVE" /\ rd.pc = "encode"
  /\ rImg.bpp = 8
  /\ rd.y >= rImg.height
  /\ rTarget' = [rTarget EXCEPT ![1] = RLE_COMMAND, ![2] = RLE_ENDOFBITMAP]
  /\ rFile' = rFile \o << RLE_COMMAND, RLE_ENDOFBITMAP >>
  /\ rd' = [rd EXCEPT !.pc = "saved"]
  /\ UNCHANGED << rImg, rDib, rOob >>
  /\ RleFrame

\* Save of the other depths: the bits written as they are, the flag is not looked at
SaveRaw ==
  /\ rd.kind = "SAVE" /\ rd.pc = "encode"
  /\ rImg.bpp # 8
  /\ rFile' = GetBits(rImg.bits)
  /\ rd' = [rd EXCEPT !.pc = "saved"]
  /\ UNCHANGED << rImg, rTarget, rDib, rOob >>
  /\ RleFrame

\* LoadWindowsBMP up to the pixel data: the dib allocated, the compression looked at
LoadOpen ==
  /\ rd.kind = "SAVE" /\ rd.pc = "saved"
  /\ rDib' = AllocateRows(CalculatePitch(GetLine(rImg.width, rImg.bpp)), rImg.height)
  /\ rd' = IF rImg.bpp = 8 THEN DecoderStart("RLE8", rImg.width, rImg.height)
           ELSE DecoderStart("RAW", rImg.width, rImg.height)
  /\ UNCHANGED << rImg, rFile, rTarget, rOob >>
  /\ RleFrame

\* LoadPixelData
LoadRaw ==
  /\ rd.kind = "RAW" /\ rd.pc = "run"
  /\ LET r == LoadPixelData(rFile, rd.pos, rDib, rImg.height,
                            CalculatePitch(GetLine(rImg.width, rImg.bpp)))
     IN  /\ rDib' = r.dib
         /\ rd' = [rd EXCEPT !.pos = r.pos, !.pc = IF r.ret THEN "true" ELSE "false"]
  /\ UNCHANGED << rImg, rFile, rTarget, rOob >>
  /\ RleFrame

BmpNext == EncodeTurn \/ SaveLine \/ SaveEnd \/ SaveRaw \/ LoadOpen \/ Rle8Step \/ LoadRaw

SpecBmp == SaveInit /\ [][BmpNext]_vars


(***************************************************************************)
(* Load of the GIF plugin in playback mode (GIF_PLAYBACK).                  *)
(***************************************************************************)
GIF_DISPOSAL_UNSPECIFIED == 0
GIF_DISPOSAL_LEAVE       == 1
GIF_DISPOSAL_BACKGROUND  == 2
GIF_DISPOSAL_PREVIOUS    == 3
GIF_PACKED_GCE_DISPOSAL  == 28
GIF_PACKED_GCE_HAVETRANS == 1

\* the second byte of the file, the I of the signature GIF8 that Validate requires
SignatureByte1 == 73

\* the colour of the background index of the global palette (colour 0 here) at alpha
\* 0, and a pixel of a page
Background == [colour |-> 0, alpha |-> 0]
Opaque(colour) == [colour |-> colour, alpha |-> 255]

\* Load, the playback loops: the packed byte read at graphic_control_extension_offsets
\* [page] + 1, which is offset 1 of the file when the frame has no control block
PlaybackPacked(frame) == IF frame.gce THEN frame.packed ELSE SignatureByte1

HaveTransparent(packed) == BitAndNat(packed, GIF_PACKED_GCE_HAVETRANS) # 0
DisposalMethod(packed) == BitAndNat(packed, GIF_PACKED_GCE_DISPOSAL) \div 4

\* Load of one page (GIF_LOAD256): the transparency of the page it returns; without a
\* control block the page has no transparency table
PageIsTransparent(frame) == frame.gce /\ HaveTransparent(frame.packed)

PageInfo(frame) ==
  [disposal_method |-> DisposalMethod(PlaybackPacked(frame)),
   left |-> frame.left, top |-> frame.top, width |-> frame.width, height |-> frame.height]

\* one FIRGBA8 stored at scanline + offset of the scanline scanidx of the dib
CanvasStore(cv, lw, lh, scanidx, offset, px) ==
  LET addr == scanidx * lw + offset
  IN  IF addr < lw * lh THEN [cv EXCEPT !.mem[addr + 1] = px]
      ELSE [cv EXCEPT !.oob = @ \cup { addr }]

\* for (x = 0; x < info.width; x++) of the background fill, from x on
RECURSIVE FillRow(_, _, _, _, _, _)
FillRow(cv, lw, lh, info, scanidx, x) ==
  IF x >= info.width THEN cv
  ELSE FillRow(CanvasStore(cv, lw, lh, scanidx, info.left + x, Background),
               lw, lh, info, scanidx, x + 1)

\* for (y = 0; y < info.height; y++) of the background fill, from y on
RECURSIVE FillRect(_, _, _, _, _)
FillRect(cv, lw, lh, info, y) ==
  IF y >= info.height \/ lh - (y + info.top) - 1 < 0 THEN cv
  ELSE FillRect(FillRow(cv, lw, lh, info, lh - (y + info.top) - 1, 0), lw, lh, info, y + 1)

\* for (x = 0; x < info.width; x++) of the copy of the page, from x on
RECURSIVE CopyRow(_, _, _, _, _, _, _, _)
CopyRow(cv, lw, lh, info, frame, scanidx, y, x) ==
  IF x >= info.width THEN cv
  ELSE LET pageline == frame.pixels[y + 1][x + 1]
           cv1 == IF ~PageIsTransparent(frame) \/ pageline # frame.transparent_color
                  THEN CanvasStore(cv, lw, lh, scanidx, info.left + x, Opaque(pageline))
                  ELSE cv
       IN  CopyRow(cv1, lw, lh, info, frame, scanidx, y, x + 1)

\* for (y = 0; y < info.height; y++) of the copy of the page, from y on
RECURSIVE CopyPage(_, _, _, _, _, _)
CopyPage(cv, lw, lh, info, frame, y) ==
  IF y >= info.height \/ lh - (y + info.top) - 1 < 0 THEN cv
  ELSE CopyPage(CopyRow(cv, lw, lh, info, frame, lh - (y + info.top) - 1, y, 0),
                lw, lh, info, frame, y + 1)

\* a backward search that never drops a page: it walks past a full-screen page that
\* is restored to background
KeyframeTestNoPop(info, have_transparent, lw, lh) ==
  IF info.left = 0 /\ info.top = 0 /\ info.width = lw /\ info.height = lh
     /\ info.disposal_method # GIF_DISPOSAL_BACKGROUND
     /\ info.disposal_method # GIF_DISPOSAL_PREVIOUS /\ ~have_transparent
  THEN "break"
  ELSE "go"

\* the keyframe test of the backward search on the page start, start # end:
\* "pop" leaves the loop past the page, "break" leaves it at the page
KeyframeTest(info, have_transparent, lw, lh) ==
  IF info.left = 0 /\ info.top = 0 /\ info.width = lw /\ info.height = lh
  THEN IF info.disposal_method = GIF_DISPOSAL_BACKGROUND THEN "pop"
       ELSE IF info.disposal_method # GIF_DISPOSAL_PREVIOUS /\ ~have_transparent THEN "break"
       ELSE "go"
  ELSE "go"


LogicalWidth  == 2   \* the logical screen is LogicalWidth x LogicalHeight
LogicalHeight == 2
MaxFrames     == 3   \* files of 1 .. MaxFrames frames; the page asked for is the last

\* the control blocks: none; leave, opaque; unspecified, transparent; restore to
\* background; restore to previous.  packed is the byte of the control block
FrameControls ==
  { [gce |-> FALSE, packed |-> 0],
    [gce |-> TRUE, packed |-> 4 * GIF_DISPOSAL_LEAVE],
    [gce |-> TRUE, packed |-> 4 * GIF_DISPOSAL_UNSPECIFIED + GIF_PACKED_GCE_HAVETRANS],
    [gce |-> TRUE, packed |-> 4 * GIF_DISPOSAL_BACKGROUND],
    [gce |-> TRUE, packed |-> 4 * GIF_DISPOSAL_PREVIOUS] }

\* the rectangles: the whole screen; its last pixel; one that starts at column 1 and
\* is as wide as the screen and one row higher, so it leaves the screen on two sides
FrameRects ==
  { [left |-> 0, top |-> 0, width |-> LogicalWidth, height |-> LogicalHeight],
    [left |-> LogicalWidth - 1, top |-> LogicalHeight - 1, width |-> 1, height |-> 1],
    [left |-> 1, top |-> 0, width |-> LogicalWidth, height |-> LogicalHeight + 1] }

\* a frame whose pixels have the colour index colour, but for its first pixel when
\* its control block declares a transparent index; that index is 9
MakeFrame(control, rect, colour) ==
  [gce |-> control.gce, packed |-> control.packed, transparent_color |-> 9,
   left |-> rect.left, top |-> rect.top, width |-> rect.width, height |-> rect.height,
   pixels |-> [y \in 1..rect.height |->
                 [x \in 1..rect.width |->
                    IF control.gce /\ HaveTransparent(control.packed) /\ y = 1 /\ x = 1
                    THEN 9 ELSE colour]]]

RECURSIVE FrameSequences(_)
FrameSequences(n) ==
  IF n = 0 THEN { << >> }
  ELSE { Append(s, MakeFrame(c, r, n)) :
           s \in FrameSequences(n - 1), c \in FrameControls, r \in FrameRects }

\* Open has built the frame index; Load(page, GIF_PLAYBACK) is called for the last page
PlayInit ==
  /\ pFrames \in UNION { FrameSequences(n) : n \in 1..MaxFrames }
  /\ pCanvas = << >>
  /\ pOob = {}
  /\ pp = [pc |-> "call", start |-> 0, end |-> 0, page |-> Len(pFrames) - 1,
           pageinfo |-> << >>, decoded |-> {}]
  /\ LzwIdle
  /\ DetIdle
  /\ RleIdle
  /\ HdrIdle
  /\ AllocIdle
  /\ TermIdle
  /\ WalkIdle
  /\ WidthIdle
  /\ DecIdle
  /\ PlanesIdle

\* Load: the logical area allocated and filled with the background colour at alpha 0
PlayBegin ==
  /\ pp.pc = "call"
  /\ pCanvas' = [n \in 1..(LogicalWidth * LogicalHeight) |-> Background]
  /\ pp' = [pp EXCEPT !.pc = "search", !.start = pp.page, !.end = pp.page]
  /\ UNCHANGED << pFrames, pOob >>
  /\ PlayFrame

\* Load: one turn of while (start >= 0), and if (start < 0) start = 0 when it is left
PlaySearch ==
  /\ pp.pc = "search"
  /\ LET frame == pFrames[pp.start + 1]
         info  == PageInfo(frame)
         test  == IF pp.start # pp.end
                  THEN KeyframeTest(info, HaveTransparent(PlaybackPacked(frame)),
                                    LogicalWidth, LogicalHeight)
                  ELSE "go"
         start == IF test = "pop" THEN pp.start + 1
                  ELSE IF test = "break" THEN pp.start
                  ELSE pp.start - 1
         left  == test # "go" \/ start < 0
         first == IF start < 0 THEN 0 ELSE start
     IN  pp' = [pp EXCEPT !.pageinfo = IF test = "pop" THEN @ ELSE Append(@, info),
                          !.start = IF left THEN first ELSE start,
                          !.page = IF left THEN first ELSE @,
                          !.pc = IF left THEN "render" ELSE "search"]
  /\ UNCHANGED << pFrames, pCanvas, pOob >>
  /\ PlayFrame

\* Load: one turn of for (page = start; page <= end; page++)
PlayRender ==
  /\ pp.pc = "render"
  /\ LET info  == pp.pageinfo[pp.end - pp.page + 1]
         cv    == [mem |-> pCanvas, oob |-> pOob]
         skip  == pp.page # pp.end /\ info.disposal_method = GIF_DISPOSAL_PREVIOUS
         fill  == pp.page # pp.end /\ info.disposal_method = GIF_DISPOSAL_BACKGROUND
         cv1   == IF skip THEN cv
                  ELSE IF fill THEN FillRect(cv, LogicalWidth, LogicalHeight, info, 0)
                  ELSE CopyPage(cv, LogicalWidth, LogicalHeight, info, pFrames[pp.page + 1], 0)
     IN  /\ pCanvas' = cv1.mem
         /\ pOob' = cv1.oob
         /\ pp' = [pp EXCEPT !.page = @ + 1,
                             !.decoded = IF skip \/ fill THEN @ ELSE @ \cup { pp.page },
                             !.pc = IF pp.page + 1 > pp.end THEN "done" ELSE "render"]
  /\ UNCHANGED pFrames
  /\ PlayFrame

PlayNext == PlayBegin \/ PlaySearch \/ PlayRender

SpecPlay == PlayInit /\ [][PlayNext]_vars


(***************************************************************************)
(* Load of the BMP, PCX and J2K plugins up to the pixel data: the file      *)
(* header and info header of the BMP variants, the palette or the channel   *)
(* masks, the return of the header-only mode.  The stream is a sequence of  *)
(* bytes, the bitmap starts at the position the stream has when Load is     *)
(* called, and the stream may end anywhere.                                 *)
(***************************************************************************)
BI_RGB            == 0
BI_RLE8           == 1
BI_RLE4           == 2
BI_BITFIELDS      == 3
BI_ALPHABITFIELDS == 6

SizeofFileHeader == 14   \* sizeof(BITMAPFILEHEADER), packed
SizeofInfoHeader == 40   \* sizeof(FIBITMAPINFOHEADER)
SizeofOS21Header == 12   \* sizeof(BITMAPINFOOS2_1X_HEADER), packed
BmpSignature     == 19778  \* 0x4D42, "BM"
BmpSignatureBA   == 16706  \* 0x4142, "BA"

\* little-endian fields of a structure held in buf, at byte offset off
U8At(buf, off)  == buf[off + 1]
U16At(buf, off) == buf[off + 1] + 256 * buf[off + 2]
U32At(buf, off) == U16At(buf, off) + 65536 * U16At(buf, off + 2)
S32At(buf, off) ==
  IF buf[off + 4] >= 128
  THEN U16At(buf, off) + 65536 * (buf[off + 3] + 256 * (buf[off + 4] - 256))
  ELSE U32At(buf, off)

\* io->seek_proc(handle, offset, origin): as fseek, a position before the start of
\* the stream is refused and the position stays; one past the end is accepted
SeekProc(stream, pos, offset, origin) ==
  LET base == IF origin = "SEEK_SET" THEN 0
              ELSE IF origin = "SEEK_CUR" THEN pos ELSE Len(stream)
  IN  IF base + offset < 0 THEN pos ELSE base + offset

\* a structure of size bytes, not initialised (every byte fill), filled by
\* read_proc(&s, size, 1, handle); short tells that the stream ended inside it
ReadStruct(stream, pos, size, fill) ==
  LET r == ReadProc(stream, pos, size, 1)
  IN  [buf |-> Overwrite([i \in 1..size |-> fill], r.data),
       pos |-> r.pos, short |-> r.items < 1,
       reads |-> IF r.pos > pos THEN { << pos, r.pos >> } ELSE {}]

\* CalculateUsedPaletteEntries
CalculateUsedPaletteEntries(bit_count) ==
  IF bit_count >= 1 /\ bit_count <= 8 THEN Pow2(bit_count) ELSE 0

\* FreeImage_AllocateHeader(header_only, width, height, bit_count): the header and
\* the palette of a raster buffer, and its pixels unless header_only
AllocateHeader(header_only, width, height, bit_count) ==
  [width |-> width, height |-> Abs(height), bpp |-> bit_count,
   palette |-> [k \in 1..CalculateUsedPaletteEntries(bit_count) |-> << 0, 0, 0 >>],
   has_pixels |-> ~header_only, loaded |-> FALSE]

\* the palette read as used_colors entries of entry bytes, blue first, each by its
\* own read_proc into an entry not initialised (every byte fill): the bytes the
\* stream does not hold keep what the memory held
ReadPaletteEntries(stream, h, pal, entry, used_colors, fill) ==
  LET byte(k, c) == IF h.pos + entry * (k - 1) + c <= Len(stream)
                    THEN stream[h.pos + entry * (k - 1) + c] ELSE fill
      want == h.pos + entry * used_colors
      pos  == IF h.pos >= Len(stream) THEN h.pos
              ELSE IF want < Len(stream) THEN want ELSE Len(stream)
  IN  [h |-> [h EXCEPT !.pos = pos,
                       !.reads = IF pos > h.pos THEN @ \cup { << h.pos, pos >> } ELSE @,
                       !.short = IF want > Len(stream) THEN @ \cup { "palette" } ELSE @],
       pal |-> [k \in DOMAIN pal |->
                  IF k <= used_colors THEN << byte(k, 3), byte(k, 2), byte(k, 1) >>
                  ELSE pal[k]]]

\* Load: the file header, the signature, the size of the info header, the loader
BmpLoad(stream, h, fill) ==
  LET fh   == ReadStruct(stream, h.pos, SizeofFileHeader, fill)
      bad  == U16At(fh.buf, 0) # BmpSignature /\ U16At(fh.buf, 0) # BmpSignatureBA
      ty   == ReadStruct(stream, fh.pos, 4, 0)
      type == U32At(ty.buf, 0)
      back == SeekProc(stream, ty.pos, 0 - 4, "SEEK_CUR")
      h1   == [h EXCEPT !.offset_in_file = h.pos, !.pos = fh.pos,
                        !.reads = @ \cup fh.reads,
                        !.short = IF fh.short THEN @ \cup { "fileheader" } ELSE @]
      h2   == [h1 EXCEPT !.pos = back, !.reads = @ \cup ty.reads, !.type = type,
                         !.short = IF ty.short THEN @ \cup { "type" } ELSE @,
                         !.bitmap_bits_offset = h.pos + U32At(fh.buf, 10)]
  IN  IF bad THEN [h1 EXCEPT !.pc = "done", !.ret = "null", !.msg = "magic number"]
      ELSE IF type = 12 THEN [h2 EXCEPT !.pc = "LoadOS21XBMP"]
      ELSE IF type = 64 THEN [h2 EXCEPT !.pc = "LoadOS22XBMP"]
      ELSE IF type \in { 40, 52, 56, 108, 124 } THEN [h2 EXCEPT !.pc = "LoadWindowsBMP"]
      ELSE [h2 EXCEPT !.pc = "done", !.ret = "null", !.msg = "unknown bmp subtype"]

\* return dib.release(), and the catch of a thrown message: return nullptr
ReturnDib(h, dib) == [h EXCEPT !.pc = "done", !.ret = "dib", !.dib = dib]
Throw(h, msg) == [h EXCEPT !.pc = "done", !.ret = "null", !.msg = msg]

\* one read_proc of size bytes whose result the loader does not look at
ReadUnchecked(stream, h, size, what) ==
  LET r == ReadProc(stream, h.pos, size, 1)
  IN  [h EXCEPT !.pos = r.pos,
                !.reads = IF r.pos > h.pos THEN @ \cup { << h.pos, r.pos >> } ELSE @,
                !.short = IF r.items < 1 THEN @ \cup { what } ELSE @]

\* seek to the pixel data and LoadPixelData; checked tells whether the loader looks
\* at the result of LoadPixelData
BmpPixels(stream, h, dib, height, pitch, checked) ==
  LET r  == LoadPixelData(stream, h.pos, AllocateRows(pitch, height), Abs(height), pitch)
      h1 == [h EXCEPT !.pos = r.pos,
                      !.reads = IF r.pos > h.pos THEN @ \cup { << h.pos, r.pos >> } ELSE @,
                      !.short = IF r.ret THEN @ ELSE @ \cup { "pixels" }]
  IN  IF checked /\ ~r.ret THEN Throw(h1, "Error encountered while decoding BMP data")
      ELSE ReturnDib(h1, [dib EXCEPT !.loaded = r.ret])

\* the palette of the Windows variants: one read_proc of used_colors FIRGBA8 into
\* the palette of the dib, which keeps what the stream does not hold
WindowsPalette(stream, h, dib, used_colors) ==
  LET r   == ReadProc(stream, h.pos, used_colors * 4, 1)
      at(k, c) == IF 4 * (k - 1) + c <= Len(r.data) THEN r.data[4 * (k - 1) + c]
                  ELSE dib.palette[k][4 - c]
  IN  [h |-> [h EXCEPT !.pos = r.pos,
                       !.reads = IF r.pos > h.pos THEN @ \cup { << h.pos, r.pos >> } ELSE @,
                       !.short = IF r.items < 1 THEN @ \cup { "palette" } ELSE @],
       dib |-> [dib EXCEPT !.palette =
                  [k \in DOMAIN dib.palette |->
                     IF k <= used_colors THEN << at(k, 3), at(k, 2), at(k, 1) >>
                     ELSE dib.palette[k]]]]

\* the number of channel masks that follow the info header
UseBitfields(compression, type) ==
  IF compression = BI_BITFIELDS THEN 3
  ELSE IF compression = BI_ALPHABITFIELDS THEN 4
  ELSE IF type = 52 THEN 3
  ELSE IF type >= 56 THEN 4
  ELSE 0

LoadWindowsBMP(stream, h, fill) ==
  LET bih == ReadStruct(stream, h.pos, SizeofInfoHeader, fill)
      h1  == [h EXCEPT !.pos = bih.pos, !.reads = @ \cup bih.reads,
                       !.short = IF bih.short THEN @ \cup { "infoheader" } ELSE @]
      width == S32At(bih.buf, 4)
      height == S32At(bih.buf, 8)
      bit_count == U16At(bih.buf, 14)
      compression == U32At(bih.buf, 16)
      clr == U32At(bih.buf, 32)
      used_colors == IF clr = 0 \/ clr > CalculateUsedPaletteEntries(bit_count)
                     THEN CalculateUsedPaletteEntries(bit_count) ELSE clr
      pitch == CalculatePitch(GetLine(width, bit_count))
      dib == AllocateHeader(h.header_only, width, height, bit_count)
      h2  == IF h.type = 40 THEN h1
             ELSE [h1 EXCEPT !.pos = SeekProc(stream, h1.pos, h.type - SizeofInfoHeader, "SEEK_CUR")]
      p   == WindowsPalette(stream, h2, dib, used_colors)
      h3  == [p.h EXCEPT !.pos = SeekProc(stream, p.h.pos, h.bitmap_bits_offset, "SEEK_SET")]
      nb  == UseBitfields(compression, h.type)
      h4  == IF nb > 0 THEN ReadUnchecked(stream, h1, nb * 4, "bitfields") ELSE h1
      h5  == [h4 EXCEPT !.pos = SeekProc(stream, h4.pos, h.bitmap_bits_offset, "SEEK_SET")]
  IN  IF width < 0 THEN Throw(h1, "BMP width is negative")
      ELSE IF bit_count \in { 1, 4, 8 }
      THEN IF ~h.memory THEN Throw(h1, "DIB allocation failed")
           ELSE IF h.header_only THEN ReturnDib(p.h, p.dib)
           ELSE IF compression = BI_RGB THEN BmpPixels(stream, h3, p.dib, height, pitch, TRUE)
           ELSE IF compression \in { BI_RLE4, BI_RLE8 } THEN [h3 EXCEPT !.pc = "rle", !.dib = p.dib]
           ELSE Throw(h3, "compression type not supported")
      ELSE IF bit_count \in { 16, 24, 32 }
      THEN IF ~h.memory THEN Throw(h4, "DIB allocation failed")
           ELSE IF h.header_only THEN ReturnDib(h4, dib)
           ELSE BmpPixels(stream, h5, dib, height, pitch, FALSE)
      ELSE [h1 EXCEPT !.pc = "done", !.ret = "null"]

\* the size of a palette entry the OS/2 2.x loader derives, in unsigned arithmetic:
\* a negative difference is a huge number
PalSize(bitmap_bits_offset, biSize, used_colors) ==
  IF bitmap_bits_offset - SizeofFileHeader - biSize < 0 THEN HugeSize
  ELSE (bitmap_bits_offset - SizeofFileHeader - biSize) \div used_colors

\* the seek of the OS/2 2.x loader to the pixel data
OS22XSeekBits(stream, h, used_colors) ==
  IF h.bitmap_bits_offset > SizeofFileHeader + SizeofInfoHeader + used_colors * 3
  THEN [h EXCEPT !.pos = SeekProc(stream, h.pos, h.bitmap_bits_offset, "SEEK_SET")]
  ELSE h

LoadOS22XBMP(stream, h, fill) ==
  LET bih == ReadStruct(stream, h.pos, SizeofInfoHeader, fill)
      h1  == [h EXCEPT !.pos = bih.pos, !.reads = @ \cup bih.reads,
                       !.short = IF bih.short THEN @ \cup { "infoheader" } ELSE @]
      biSize == U32At(bih.buf, 0)
      width == S32At(bih.buf, 4)
      height == S32At(bih.buf, 8)
      bit_count == U16At(bih.buf, 14)
      compression == U32At(bih.buf, 16)
      clr == U32At(bih.buf, 32)
      used_colors == IF clr = 0 \/ clr > CalculateUsedPaletteEntries(bit_count)
                     THEN CalculateUsedPaletteEntries(bit_count) ELSE clr
      pitch == CalculatePitch(GetLine(width, bit_count))
      dib == AllocateHeader(h.header_only, width, height, bit_count)
      pal_size == PalSize(h.bitmap_bits_offset, biSize, used_colors)
      h2  == [h1 EXCEPT !.pos = SeekProc(stream, h1.pos, SizeofFileHeader + biSize, "SEEK_SET"),
                        !.pal_size = pal_size]
      p   == IF pal_size = 4 \/ pal_size = 3
             THEN ReadPaletteEntries(stream, h2, dib.palette, pal_size, used_colors, fill)
             ELSE [h |-> h2, pal |-> dib.palette]
      pdib == [dib EXCEPT !.palette = p.pal]
      h4  == IF compression = 3 THEN ReadUnchecked(stream, h1, 12, "bitfields") ELSE h1
  IN  IF bit_count \in { 1, 4, 8 }
      THEN IF ~h.memory THEN Throw(h1, "DIB allocation failed")
           ELSE IF h.header_only THEN ReturnDib(p.h, pdib)
           ELSE IF compression = BI_RGB
           THEN BmpPixels(stream, OS22XSeekBits(stream, p.h, used_colors), pdib, height, pitch, FALSE)
           ELSE IF compression \in { BI_RLE4, BI_RLE8 }
           THEN [OS22XSeekBits(stream, p.h, used_colors) EXCEPT !.pc = "rle", !.dib = pdib]
           ELSE Throw(OS22XSeekBits(stream, p.h, used_colors), "compression type not supported")
      ELSE IF bit_count = 16
      THEN IF ~h.memory THEN Throw(h4, "DIB allocation failed")
           ELSE IF h.header_only THEN ReturnDib(h4, dib)
           ELSE BmpPixels(stream, OS22XSeekBits(stream, h4, clr), dib, height, pitch, FALSE)
      ELSE IF bit_count \in { 24, 32 }
      THEN IF ~h.memory THEN Throw(h1, "DIB allocation failed")
           ELSE IF h.header_only THEN ReturnDib(h1, dib)
           ELSE BmpPixels(stream, OS22XSeekBits(stream, h1, clr), dib, height, pitch, FALSE)
      ELSE [h1 EXCEPT !.pc = "done", !.ret = "null"]

LoadOS21XBMP(stream, h, fill) ==
  LET bios == ReadStruct(stream, h.pos, SizeofOS21Header, fill)
      h1  == [h EXCEPT !.pos = bios.pos, !.reads = @ \cup bios.reads,
                       !.short = IF bios.short THEN @ \cup { "infoheader" } ELSE @]
      width == U16At(bios.buf, 4)
      height == U16At(bios.buf, 6)
      bit_count == U16At(bios.buf, 10)
      used_colors == CalculateUsedPaletteEntries(bit_count)
      pitch == CalculatePitch(GetLine(width, bit_count))
      dib == AllocateHeader(h.header_only, width, height, bit_count)
      p   == ReadPaletteEntries(stream, h1, dib.palette, 3, used_colors, fill)
      pdib == [dib EXCEPT !.palette = p.pal]
      h3  == [p.h EXCEPT !.pos = SeekProc(stream, p.h.pos, h.bitmap_bits_offset, "SEEK_SET")]
  IN  IF bit_count \in { 1, 4, 8 }
      THEN IF ~h.memory THEN Throw(h1, "DIB allocation failed")
           ELSE IF h.header_only THEN ReturnDib(p.h, pdib)
           ELSE BmpPixels(stream, h3, pdib, height, pitch, FALSE)
      ELSE IF bit_count \in { 16, 24, 32 }
      THEN IF ~h.memory THEN Throw(h1, "DIB allocation failed")
           ELSE IF h.header_only THEN ReturnDib(h1, dib)
           ELSE BmpPixels(stream, h1, dib, height, pitch, FALSE)
      ELSE [h1 EXCEPT !.pc = "done", !.ret = "null"]

SizeofPCXHeader == 128   \* sizeof(PCXHEADER), packed
PcxPaletteId    == 12    \* 0x0C, the byte before the 256-colour palette
PcxPaletteBack  == 769   \* the seek of Load from the end of the stream to that byte

\* pcx_validate
pcx_validate(stream, pos) ==
  LET r == ReadProc(stream, pos, 1, 4)
      signature == Overwrite(<< 0, 0, 0, 0 >>, r.data)
  IN  [ret |-> /\ r.items = 4
               /\ signature[1] = 10
               /\ signature[2] <= 5
               /\ signature[3] \in { 0, 1 }
               /\ signature[4] \in { 1, 8 },
       reads |-> IF r.pos > pos THEN { << pos, r.pos >> } ELSE {}]

\* Load of the PCX plugin: the palette of an 8-bit image, looked for at 769 bytes
\* from the end of the stream; palette_id and the colour map are not initialised
PcxPalette8(stream, h, dib, palette_info, fill) ==
  LET at  == SeekProc(stream, h.pos, 0 - PcxPaletteBack, "SEEK_END")
      id  == ReadStruct(stream, at, 1, fill)
      cm  == ReadStruct(stream, id.pos, 768, fill)
      vga == id.buf[1] = PcxPaletteId
      pal == IF vga /\ h.memory
             THEN [i \in 1..256 |-> << cm.buf[3 * i - 2], cm.buf[3 * i - 1], cm.buf[3 * i] >>]
             ELSE IF ~vga /\ palette_info = 2
             THEN [i \in 1..256 |-> << i - 1, i - 1, i - 1 >>]
             ELSE dib.palette
  IN  [h |-> [h EXCEPT !.pos = SeekProc(stream, 0, SizeofPCXHeader, "SEEK_SET"),
                       !.reads = @ \cup id.reads \cup (IF vga /\ h.memory THEN cm.reads ELSE {}),
                       !.short = @ \cup (IF id.short THEN { "palette_id" } ELSE {})
                                   \cup (IF vga /\ h.memory /\ cm.short THEN { "palette" } ELSE {})],
       dib |-> [dib EXCEPT !.palette = pal]]

\* Load of the PCX plugin, up to the pixel data
PcxLoad(stream, h, fill) ==
  LET v   == pcx_validate(stream, h.pos)
      hd  == ReadProc(stream, h.pos, SizeofPCXHeader, 1)
      header == hd.data
      h1  == [h EXCEPT !.reads = @ \cup v.reads]
      h2  == [h1 EXCEPT !.pos = hd.pos,
                        !.reads = IF hd.pos > h.pos THEN @ \cup { << h.pos, hd.pos >> } ELSE @,
                        !.short = IF hd.items # 1 THEN @ \cup { "header" } ELSE @]
      left == U16At(header, 4)
      top == U16At(header, 6)
      right == U16At(header, 8)
      bottom == U16At(header, 10)
      width == right - left + 1
      height == bottom - top + 1
      bitcount == U8At(header, 3) * U8At(header, 65)
      dib == AllocateHeader(h.header_only, width, height, bitcount)
      pal4 == [i \in 1..16 |-> << header[16 + 3 * i - 2], header[16 + 3 * i - 1], header[16 + 3 * i] >>]
      p   == IF bitcount = 8 THEN PcxPalette8(stream, h2, dib, U16At(header, 68), fill)
             ELSE IF bitcount = 4 THEN [h |-> h2, dib |-> [dib EXCEPT !.palette = pal4]]
             ELSE IF bitcount = 1
             THEN [h |-> h2, dib |-> [dib EXCEPT !.palette = << << 0, 0, 0 >>, << 255, 255, 255 >> >>]]
             ELSE [h |-> h2, dib |-> dib]
  IN  IF ~v.ret THEN Throw(h1, "magic number")
      ELSE IF hd.items # 1 THEN Throw(h2, "parsing error")
      ELSE IF left >= right \/ top >= bottom THEN Throw(h2, "parsing error")
      ELSE IF bitcount \notin { 1, 4, 8, 24 } THEN Throw(h2, "DIB allocation failed")
      ELSE IF ~h.memory THEN Throw(h2, "DIB allocation failed")
      ELSE IF h.header_only THEN ReturnDib(p.h, p.dib)
      ELSE [p.h EXCEPT !.pc = "decode", !.dib = p.dib]

SizeofSGIHeader == 512   \* sizeof(SGIHeader), packed
SgiMagic        == 474

\* big-endian 16-bit field of the SGI header, as SwapHeader leaves it
BE16At(buf, off) == 256 * buf[off + 1] + buf[off + 2]

\* Load of the SGI plugin, up to the offset tables: the header is set to zero and
\* read as sizeof(SGIHeader) items of one byte
SgiLoadHeader(stream, h) ==
  LET r  == ReadProc(stream, h.pos, 1, SizeofSGIHeader)
      sgiHeader == Overwrite([i \in 1..SizeofSGIHeader |-> 0], r.data)
      h1 == [h EXCEPT !.pos = r.pos,
                      !.reads = IF r.pos > h.pos THEN @ \cup { << h.pos, r.pos >> } ELSE @,
                      !.short = IF r.items < SizeofSGIHeader THEN @ \cup { "header" } ELSE @]
  IN  IF r.items < SizeofSGIHeader THEN Throw(h1, "Incorrect header size")
      ELSE IF BE16At(sgiHeader, 0) # SgiMagic THEN Throw(h1, "magic number")
      ELSE IF U8At(sgiHeader, 3) # 1 THEN Throw(h1, "No 16 bit support")
      ELSE IF sgiHeader[105] + sgiHeader[106] + sgiHeader[107] + sgiHeader[108] # 0
      THEN Throw(h1, "No colormap support")
      ELSE [h1 EXCEPT !.pc = "decode"]

\* the markers of a JPEG-2000 codestream: start of codestream, start of tile-part
J2kSOC == 79
J2kSOT == 144

\* Validate of the J2K plugin: the stream is left where it was
J2kSignature(stream, pos) ==
  LET r == ReadProc(stream, pos, 1, 2)
  IN  [ret |-> Overwrite(<< 0, 0 >>, r.data) = << 255, J2kSOC >>,
       reads |-> IF r.pos > pos THEN { << pos, r.pos >> } ELSE {}]

\* opj_read_header, the codec library: it reads the main header, which ends where
\* the first tile-part starts, and fails when the stream holds no tile-part
opj_read_header(stream, pos) ==
  LET sot == { i \in (pos + 1)..(Len(stream) - 1) : stream[i] = 255 /\ stream[i + 1] = J2kSOT }
      end == CHOOSE i \in sot : \A j \in sot : i <= j
  IN  IF sot = {} THEN [ret |-> FALSE, pos |-> Len(stream), reads |-> { << pos, Len(stream) >> }]
      ELSE [ret |-> TRUE, pos |-> end - 1, reads |-> { << pos, end - 1 >> }]

\* Load of the J2K plugin; the image of opj_read_header carries the size and the
\* depth of the SIZ segment
J2kLoad(stream, h) ==
  LET v  == J2kSignature(stream, h.pos)
      r  == opj_read_header(stream, h.pos)
      h1 == [h EXCEPT !.reads = @ \cup v.reads]
      h2 == [h1 EXCEPT !.pos = r.pos, !.reads = @ \cup r.reads]
      dib == AllocateHeader(h.header_only, stream[h.pos + 5], stream[h.pos + 6], stream[h.pos + 7])
  IN  IF ~v.ret THEN [h1 EXCEPT !.pc = "done", !.ret = "null"]
      ELSE IF ~r.ret THEN Throw(h2, "Failed to read the header")
      ELSE IF ~h.memory THEN Throw(h2, "Failed to import JPEG2000 image")
      ELSE IF h.header_only THEN ReturnDib(h2, dib)
      ELSE [h2 EXCEPT !.pc = "decode", !.dib = dib]

StartOffset == 3    \* the bitmap starts at position 0 or StartOffset of the stream
SmallSide   == 2    \* the images are SmallSide x SmallSide pixels
PcxTallHeight == 400  \* but for an 8-bit PCX image of that many rows, longer than a palette

\* what the memory of a structure that is not initialised may hold: every byte 0,
\* or every byte 1
UninitFill == { 0, 1 }

LE16(v) == << v % 256, v \div 256 >>
LE32(v) == LE16(v % 65536) \o LE16(v \div 65536)
Bytes(n, v) == [i \in 1..n |-> v]

\* the palette entry k of the files: blue, green, red, and a fourth byte
FileEntry(k, entry) ==
  IF entry = 4 THEN << (10 + k) % 256, (20 + k) % 256, (30 + k) % 256, 0 >>
  ELSE << (10 + k) % 256, (20 + k) % 256, (30 + k) % 256 >>

FilePalette(n, entry) ==
  [i \in 1..(n * entry) |-> FileEntry(((i - 1) \div entry) + 1, entry)[((i - 1) % entry) + 1]]

\* a BMP file: info header of type bytes, channel masks, palette of n entries,
\* pixel rows; with what a loader has to find in it
BmpFile(type, bit_count, compression, clr, entry, masks) ==
  LET n    == IF bit_count > 8 THEN 0
              ELSE IF type = 12 \/ clr = 0 THEN Pow2(bit_count) ELSE clr
      info == IF type = 12
              THEN LE32(12) \o LE16(SmallSide) \o LE16(SmallSide) \o LE16(1) \o LE16(bit_count)
              ELSE LE32(type) \o LE32(SmallSide) \o LE32(SmallSide) \o LE16(1) \o LE16(bit_count)
                   \o LE32(compression) \o LE32(0) \o LE32(2835) \o LE32(2835)
                   \o LE32(clr) \o LE32(0) \o Bytes(type - SizeofInfoHeader, 7)
      off  == SizeofFileHeader + type + masks + n * entry
      rows == Bytes(SmallSide * CalculatePitch(GetLine(SmallSide, bit_count)), 170)
      head == LE16(BmpSignature) \o LE32(off + Len(rows)) \o LE16(0) \o LE16(0) \o LE32(off)
  IN  [codec |-> "BMP", type |-> type, entry |-> entry,
       bytes |-> head \o info \o Bytes(masks, 31) \o FilePalette(n, entry) \o rows,
       header_end |-> SizeofFileHeader + type, palette_at |-> SizeofFileHeader + type + masks,
       pixel_from |-> off, pixel_to |-> off + Len(rows),
       width |-> SmallSide, height |-> SmallSide, bpp |-> bit_count,
       palette |-> [k \in 1..n |-> << (30 + k) % 256, (20 + k) % 256, (10 + k) % 256 >>]]

BmpTypes == { 12, 64, 40, 52, 56, 108, 124 }
BmpDepths == { 1, 4, 8, 16, 24, 32 }

BmpFiles ==
  { BmpFile(t, b, 0, IF b = 8 \/ (b = 4 /\ c = 2) THEN 2 ELSE 0, IF t = 12 THEN 3 ELSE IF t = 64 THEN e ELSE 4, 0) :
      t \in BmpTypes, b \in BmpDepths, c \in { 0, 2 }, e \in { 3, 4 } }
  \cup { BmpFile(t, b, BI_BITFIELDS, 0, 4, 12) : t \in { 40, 64 }, b \in { 16 } }

\* a PCX file of bits x planes bits per pixel, not compressed; kind tells what
\* follows the pixel rows: the 256-colour palette, or nothing
PcxFile(bits, planes, kind, palette_info, pixel, height) ==
  LET rows == Bytes(height * 2 * planes, pixel)
      head == << 10, 5, 0, bits >> \o LE16(0) \o LE16(0) \o LE16(SmallSide - 1) \o LE16(height - 1)
              \o LE16(72) \o LE16(72) \o FilePalette(16, 3) \o << 0, planes >>
              \o LE16(2) \o LE16(palette_info) \o Bytes(58, 0)
      tail == IF kind = "vga" THEN << PcxPaletteId >> \o FilePalette(256, 3) ELSE << >>
  IN  [codec |-> "PCX", type |-> 0, entry |-> 3,
       bytes |-> head \o rows \o tail,
       header_end |-> SizeofPCXHeader, palette_at |-> SizeofPCXHeader + Len(rows),
       pixel_from |-> SizeofPCXHeader, pixel_to |-> SizeofPCXHeader + Len(rows),
       width |-> SmallSide, height |-> height, bpp |-> bits * planes,
       palette |-> IF bits * planes = 1 THEN << << 0, 0, 0 >>, << 255, 255, 255 >> >>
                   ELSE IF bits * planes = 4
                   THEN [k \in 1..16 |-> << (10 + k) % 256, (20 + k) % 256, (30 + k) % 256 >>]
                   ELSE IF bits * planes = 8 /\ kind = "vga"
                   THEN [k \in 1..256 |-> << (10 + k) % 256, (20 + k) % 256, (30 + k) % 256 >>]
                   ELSE IF bits * planes = 8 /\ palette_info = 2
                   THEN [k \in 1..256 |-> << k - 1, k - 1, k - 1 >>]
                   ELSE << >>]

PcxFiles ==
  { PcxFile(b[1], b[2], "none", 1, 170, SmallSide) : b \in { << 1, 1 >>, << 1, 4 >>, << 8, 3 >>, << 1, 3 >> } }
  \cup { PcxFile(8, 1, k, i, p, SmallSide) : k \in { "vga", "none" }, i \in { 1, 2 }, p \in { 170, PcxPaletteId } }
  \cup { PcxFile(8, 1, "none", i, 170, PcxTallHeight) : i \in { 1, 2 } }

\* an SGI file: one channel, not compressed
SgiFile ==
  LET rows == Bytes(SmallSide * SmallSide, 170)
      head == << 1, 218, 0, 1, 0, 2, 0, SmallSide, 0, SmallSide, 0, 1 >> \o Bytes(SizeofSGIHeader - 12, 0)
  IN  [codec |-> "SGI", type |-> 0, entry |-> 0, bytes |-> head \o rows,
       header_end |-> SizeofSGIHeader, palette_at |-> SizeofSGIHeader,
       pixel_from |-> SizeofSGIHeader, pixel_to |-> SizeofSGIHeader + Len(rows),
       width |-> SmallSide, height |-> SmallSide, bpp |-> 8, palette |-> << >>]

\* a JPEG-2000 codestream: main header, one tile-part
J2kFile ==
  LET head == << 255, J2kSOC, 255, 81, SmallSide, SmallSide, 8 >>
      tile == << 255, J2kSOT >> \o Bytes(4, 170)
  IN  [codec |-> "J2K", type |-> 0, entry |-> 0, bytes |-> head \o tile,
       header_end |-> Len(head), palette_at |-> Len(head),
       pixel_from |-> Len(head), pixel_to |-> Len(head) + Len(tile),
       width |-> SmallSide, height |-> SmallSide, bpp |-> 8, palette |-> << >>]

\* where the streams end: at the end of the file, or after so many of its bytes
Cuts(f) ==
  { Len(f.bytes) } \cup
  { c \in (IF f.codec = "BMP" THEN { 1, 10, 16, 30, 44 }
           ELSE IF f.codec = "PCX" THEN { 2, 100 }
           ELSE IF f.codec = "SGI" THEN { 100 }
           ELSE { 1, 5 }) : c < Len(f.bytes) }

HdrStart(header_only, memory, start) ==
  [pc |-> "Load", header_only |-> header_only, memory |-> memory, pos |-> start,
   offset_in_file |-> 0, bitmap_bits_offset |-> 0, type |-> 0, pal_size |-> 0,
   reads |-> {}, short |-> {}, ret |-> "none", msg |-> "", dib |-> << >>]

HdrInit ==
  /\ \E f \in BmpFiles \cup PcxFiles \cup { SgiFile, J2kFile } :
       \E start \in { 0, StartOffset }, cut \in Cuts(f) :
         /\ start = 0 \/ f.codec = "BMP"
         /\ hFile = [start |-> start, cut |-> cut] @@ f
         /\ hStream = Bytes(start, 238) \o SubSeq(f.bytes, 1, cut)
  /\ \E header_only \in BOOLEAN, memory \in BOOLEAN :
       hl = HdrStart(header_only, memory, hFile.start)
  /\ LzwIdle
  /\ DetIdle
  /\ RleIdle
  /\ PlayIdle
  /\ AllocIdle
  /\ TermIdle
  /\ WalkIdle
  /\ WidthIdle
  /\ DecIdle
  /\ PlanesIdle

\* Load of the BMP plugin
HdrBmpLoad ==
  /\ hFile.codec = "BMP" /\ hl.pc = "Load"
  /\ \E fill \in UninitFill : hl' = BmpLoad(hStream, hl, fill)
  /\ UNCHANGED << hStream, hFile >>
  /\ HdrFrame

HdrWindows ==
  /\ hl.pc = "LoadWindowsBMP"
  /\ \E fill \in UninitFill : hl' = LoadWindowsBMP(hStream, hl, fill)
  /\ UNCHANGED << hStream, hFile >>
  /\ HdrFrame

HdrOS22X ==
  /\ hl.pc = "LoadOS22XBMP"
  /\ \E fill \in UninitFill : hl' = LoadOS22XBMP(hStream, hl, fill)
  /\ UNCHANGED << hStream, hFile >>
  /\ HdrFrame

HdrOS21X ==
  /\ hl.pc = "LoadOS21XBMP"
  /\ \E fill \in UninitFill : hl' = LoadOS21XBMP(hStream, hl, fill)
  /\ UNCHANGED << hStream, hFile >>
  /\ HdrFrame

\* Load of the PCX plugin
HdrPcx ==
  /\ hFile.codec = "PCX" /\ hl.pc = "Load"
  /\ \E fill \in UninitFill : hl' = PcxLoad(hStream, hl, fill)
  /\ UNCHANGED << hStream, hFile >>
  /\ HdrFrame

\* Load of the SGI plugin
HdrSgi ==
  /\ hFile.codec = "SGI" /\ hl.pc = "Load"
  /\ hl' = SgiLoadHeader(hStream, hl)
  /\ UNCHANGED << hStream, hFile >>
  /\ HdrFrame

\* Load of the J2K plugin
HdrJ2k ==
  /\ hFile.codec = "J2K" /\ hl.pc = "Load"
  /\ hl' = J2kLoad(hStream, hl)
  /\ UNCHANGED << hStream, hFile >>
  /\ HdrFrame

HdrNext == HdrBmpLoad \/ HdrWindows \/ HdrOS22X \/ HdrOS21X \/ HdrPcx \/ HdrSgi \/ HdrJ2k

SpecHeader == HdrInit /\ [][HdrNext]_vars


(***************************************************************************)
(* Memory.  What a load or a save does with each allocation it makes, and   *)
(* with the failure of one of them: the allocation number failAt fails (0:  *)
(* none does).  live holds what is allocated and not released.              *)
(***************************************************************************)
MaxAllocs == 6   \* no load or save of the model makes more allocations
MaxBlock  == 2   \* the length of a sub-block, and the bytes of a scanline
MaxBlocks == 2   \* the sub-blocks of a frame, and the scanlines of an image

\* an allocation that gives nullptr when it fails (new(std::nothrow), malloc,
\* calloc, FreeImage_Allocate)
AllocNothrow(a, obj) ==
  IF a.n + 1 = a.failAt THEN [a EXCEPT !.n = @ + 1, !.failed = TRUE]
  ELSE [a EXCEPT !.n = @ + 1, !.live = @ \cup { obj }]

\* return of a failure: what the locals own is released
AllocFail(a, owned) == [a EXCEPT !.pc = "done", !.ret = "fail", !.live = @ \ owned]

\* the operation does not return: a write or a read through nullptr, or an
\* exception that no handler of the plugin catches
AllocFault(a, kind) == [a EXCEPT !.pc = "done", !.fault = kind]

\* new(std::nothrow) StringTable: the constructor, which allocates the map, runs
\* only on memory that was obtained
NewStringTable(a) ==
  LET a1 == AllocNothrow(a, "stringtable")
  IN  IF "stringtable" \in a1.live
      THEN [AllocNothrow(a1, "m_strmap") EXCEPT !.m_bufferRealSize = 0, !.firstPixelPassed = FALSE]
      ELSE a1

\* StringTable::FillInputBuffer as to memory
FillBuffer(a, len) ==
  IF "m_buffer" \notin a.live
  THEN [AllocNothrow(a, "m_buffer") EXCEPT !.m_bufferRealSize = len]
  ELSE IF len > a.m_bufferRealSize
  THEN [AllocNothrow([a EXCEPT !.live = @ \ { "m_buffer" }], "m_buffer") EXCEPT !.m_bufferRealSize = len]
  ELSE a

\* delete stringtable
DeleteStringTable(a) == [a EXCEPT !.live = @ \ { "stringtable", "m_strmap", "m_buffer" }]

\* Load of the GIF plugin: the frame
GifLoadDib(a) ==
  LET a1 == AllocNothrow(a, "dib")
  IN  IF "dib" \notin a1.live THEN AllocFail(a1, { "dib" })
      ELSE [a1 EXCEPT !.pc = "stringtable"]

\* Load and Save of the GIF plugin: the string table and Initialize, which
\* stores into its members
GifStringTable(a) ==
  LET a1 == NewStringTable(a)
  IN  IF "stringtable" \notin a1.live THEN AllocFault(a1, "nullptr")
      ELSE [a1 EXCEPT !.pc = "blocks"]

\* Load: one sub-block, read into the input buffer and decompressed from it
GifLoadBlock(a) ==
  LET a1 == FillBuffer(a, Head(a.blocks))
  IN  IF "m_buffer" \notin a1.live THEN AllocFault(a1, "nullptr")
      ELSE [a1 EXCEPT !.blocks = Tail(@)]

\* Save: one scanline, copied into the input buffer and compressed from it;
\* Compress looks every pixel but the first of the image up in the map
GifSaveLine(a) ==
  LET a1 == FillBuffer(a, Head(a.blocks))
  IN  IF "m_buffer" \notin a1.live THEN AllocFault(a1, "nullptr")
      ELSE IF (a.firstPixelPassed \/ Head(a.blocks) > 1) /\ "m_strmap" \notin a1.live
      THEN AllocFault(a1, "nullptr")
      ELSE [a1 EXCEPT !.blocks = Tail(@), !.firstPixelPassed = TRUE]

\* Load and Save: delete stringtable, and the return of the frame or of TRUE
GifEnd(a) == [DeleteStringTable(a) EXCEPT !.pc = "done", !.ret = "ok"]

\* LoadWindowsBMP with BI_RLE4: the dib, and the staging buffer of
\* LoadPixelDataRLE4, both checked
BmpLoadRLE4(a) ==
  LET a1 == AllocNothrow(a, "dib")
      a2 == AllocNothrow(a1, "safePixels")
  IN  IF "dib" \notin a1.live THEN AllocFail(a1, { "dib" })
      ELSE IF "safePixels" \notin a2.live THEN AllocFail(a2, { "dib", "safePixels" })
      ELSE [a2 EXCEPT !.pc = "done", !.ret = "ok", !.live = @ \ { "safePixels" }]

\* Save of the BMP plugin with BMP_SAVE_RLE: std::make_unique outside any try
BmpSaveRLE(a) ==
  LET a1 == AllocNothrow(a, "buffer")
  IN  IF "buffer" \notin a1.live THEN AllocFault(a1, "bad_alloc")
      ELSE [a1 EXCEPT !.pc = "done", !.ret = "ok", !.live = @ \ { "buffer" }]

\* Load of the PCX plugin: the dib; for 8 bits with a palette the colour map,
\* without which the palette is left as it is; the line buffers, whose
\* std::bad_alloc Load catches
PcxLoadAlloc(a) ==
  LET a1 == AllocNothrow(a, "dib")
      a2 == IF a.kind = "vga" THEN [AllocNothrow(a1, "cmap") EXCEPT !.live = @ \ { "cmap" }] ELSE a1
      a3 == AllocNothrow(a2, "line")
      a4 == AllocNothrow(a3, "ReadBuf")
      a5 == IF a.kind = "planes" THEN AllocNothrow(a4, "buffer") ELSE a4
      locals == { "dib", "line", "ReadBuf", "buffer" }
  IN  IF "dib" \notin a1.live THEN AllocFail(a1, locals)
      ELSE IF a.header_only THEN [a2 EXCEPT !.pc = "done", !.ret = "ok"]
      ELSE IF "line" \notin a3.live THEN AllocFail(a3, locals)
      ELSE IF "ReadBuf" \notin a4.live THEN AllocFail(a4, locals)
      ELSE IF a.kind = "planes" /\ "buffer" \notin a5.live THEN AllocFail(a5, locals)
      ELSE [a5 EXCEPT !.pc = "done", !.ret = "ok", !.live = @ \ { "line", "ReadBuf", "buffer" }]

\* Load of the SGI plugin: the offset table of a compressed file, whose
\* std::bad_alloc Load catches, and the dib
SgiLoadAlloc(a) ==
  LET a1 == IF a.kind = "rle" THEN AllocNothrow(a, "pRowIndex") ELSE a
      a2 == AllocNothrow(a1, "dib")
      locals == { "pRowIndex", "dib" }
  IN  IF a.kind = "rle" /\ "pRowIndex" \notin a1.live THEN AllocFail(a1, locals)
      ELSE IF "dib" \notin a2.live THEN AllocFail(a2, locals)
      ELSE [a2 EXCEPT !.pc = "done", !.ret = "ok", !.live = @ \ { "pRowIndex" }]

AllocOps ==
  { << "GifLoad", "" >>, << "GifSave", "" >>, << "BmpLoadRLE4", "" >>, << "BmpSaveRLE", "" >>,
    << "PcxLoad", "vga" >>, << "PcxLoad", "planes" >>, << "PcxLoad", "rgb" >>,
    << "SgiLoad", "rle" >>, << "SgiLoad", "verbatim" >> }

BlockLists ==
  UNION { [1..k -> 1..MaxBlock] : k \in 0..MaxBlocks }

AllocInit ==
  /\ \E o \in AllocOps, failAt \in 0..MaxAllocs, blocks \in BlockLists, header_only \in BOOLEAN :
       /\ o[1] \in { "GifLoad", "GifSave" } \/ blocks = << >>
       /\ o[1] = "GifSave" => blocks # << >>
       /\ o[1] = "PcxLoad" \/ ~header_only
       /\ am = [op |-> o[1], kind |-> o[2], pc |-> IF o[1] = "GifSave" THEN "stringtable" ELSE "start",
                header_only |-> header_only, blocks |-> blocks,
                n |-> 0, failAt |-> failAt, failed |-> FALSE, live |-> {},
                m_bufferRealSize |-> 0, firstPixelPassed |-> FALSE,
                ret |-> "none", fault |-> "none"]
  /\ LzwIdle
  /\ DetIdle
  /\ RleIdle
  /\ PlayIdle
  /\ HdrIdle
  /\ TermIdle
  /\ WalkIdle
  /\ WidthIdle
  /\ DecIdle
  /\ PlanesIdle

AmGifLoadDib ==
  /\ am.op = "GifLoad" /\ am.pc = "start"
  /\ am' = GifLoadDib(am)
  /\ AllocFrame

AmGifStringTable ==
  /\ am.op \in { "GifLoad", "GifSave" } /\ am.pc = "stringtable"
  /\ am' = GifStringTable(am)
  /\ AllocFrame

AmGifLoadBlock ==
  /\ am.op = "GifLoad" /\ am.pc = "blocks" /\ am.blocks # << >>
  /\ am' = GifLoadBlock(am)
  /\ AllocFrame

AmGifSaveLine ==
  /\ am.op = "GifSave" /\ am.pc = "blocks" /\ am.blocks # << >>
  /\ am' = GifSaveLine(am)
  /\ AllocFrame

AmGifEnd ==
  /\ am.op \in { "GifLoad", "GifSave" } /\ am.pc = "blocks" /\ am.blocks = << >>
  /\ am' = GifEnd(am)
  /\ AllocFrame

AmBmpLoadRLE4 ==
  /\ am.op = "BmpLoadRLE4" /\ am.pc = "start"
  /\ am' = BmpLoadRLE4(am)
  /\ AllocFrame

AmBmpSaveRLE ==
  /\ am.op = "BmpSaveRLE" /\ am.pc = "start"
  /\ am' = BmpSaveRLE(am)
  /\ AllocFrame

AmPcxLoad ==
  /\ am.op = "PcxLoad" /\ am.pc = "start"
  /\ am' = PcxLoadAlloc(am)
  /\ AllocFrame

AmSgiLoad ==
  /\ am.op = "SgiLoad" /\ am.pc = "start"
  /\ am' = SgiLoadAlloc(am)
  /\ AllocFrame

AllocNext ==
  \/ AmGifLoadDib \/ AmGifStringTable \/ AmGifLoadBlock \/ AmGifSaveLine \/ AmGifEnd
  \/ AmBmpLoadRLE4 \/ AmBmpSaveRLE \/ AmPcxLoad \/ AmSgiLoad

SpecAlloc == AllocInit /\ [][AllocNext]_vars


(***************************************************************************)
(* The loops of the decoders over a stream that may be corrupt or cut: the  *)
(* turns of LoadPixelDataRLE8, the calls of get_rlechar and the turns of    *)
(* its count loop, the blocks and the sub-blocks of Open of the GIF plugin, *)
(* and the sub-blocks of its Load on a stream Open accepted.                *)
(***************************************************************************)
MaxTurns == 3   \* the turns of a loop are counted up to MaxTurns
MaxCalls == 3   \* get_rlechar is called at most MaxCalls times

GIF_BLOCK_IMAGE_DESCRIPTOR == 44   \* 0x2C
GIF_BLOCK_EXTENSION        == 33   \* 0x21
GIF_BLOCK_TRAILER          == 59   \* 0x3B
GIF_PACKED_HAVECT          == 128  \* GIF_PACKED_LSD_HAVEGCT, GIF_PACKED_ID_HAVELCT
GIF_PACKED_CTSIZE          == 7    \* GIF_PACKED_LSD_GCTSIZE, GIF_PACKED_ID_LCTSIZE
GIF_EXT_GRAPHIC_CONTROL    == 249  \* 0xF9

Turn(t) == IF t.turns < MaxTurns THEN [t EXCEPT !.turns = @ + 1] ELSE t

\* a return of the loop, or of the function that holds it
TermReturn(t, ret) == [t EXCEPT !.pc = "return", !.ret = ret]

\* LoadPixelDataRLE8: one turn of for (;;), r is what it did
TermRle8Turn(t, r) ==
  [Turn(t) EXCEPT !.d = r.d, !.w = r.w, !.pos = r.d.pos,
                  !.pc = IF r.d.pc = "run" THEN "run" ELSE "return",
                  !.ret = r.d.pc]

\* the end of a call of get_rlechar with the sample or EOF g.ch: the row loop
\* of Load calls again, unless it saw EOF
SgiCalled(t, g) ==
  [t EXCEPT !.d = g.d, !.pos = g.d.pos, !.ch = g.ch, !.calls = @ + 1,
            !.pc = IF g.ch = EOF_SGI \/ t.calls + 1 >= MaxCalls THEN "return" ELSE "call",
            !.ret = IF g.ch = EOF_SGI THEN "EOF" ELSE "ch"]

\* get_rlechar up to its count loop
SgiCall(t, stream) ==
  IF t.d.cnt = 0 THEN [t EXCEPT !.pc = "count"]
  ELSE SgiCalled(t, RleCharTake([t.d EXCEPT !.cnt = @ - 1], stream))

\* get_rlechar: one turn of while (0 == cnt), and what follows the loop
SgiCountTurn(t, stream) ==
  LET r == ReadProc(stream, t.d.pos, 1, 1)
      d == [t.d EXCEPT !.pos = r.pos]
  IN  IF r.items < 1 THEN SgiCalled(Turn(t), [d |-> d, ch |-> EOF_SGI])
      ELSE IF r.data[1] = 0 THEN [Turn(t) EXCEPT !.d = d, !.pos = r.pos]
      ELSE SgiCalled(Turn(t), RleCharStart(t.d, stream, [cnt |-> r.data[1], pos |-> r.pos]))

\* the size in bytes of the colour table that packed announces
ColourTableBytes(packed) ==
  IF BitAndNat(packed, GIF_PACKED_HAVECT) # 0
  THEN 3 * 2 * Pow2(BitAndNat(packed, GIF_PACKED_CTSIZE))
  ELSE 0

\* Open taking the end of the stream for the end of the file
GifOpenLenEofEnds(t, stream, pos) ==
  LET r == ReadProc(stream, pos, 1, 1)
  IN  IF r.items < 1 THEN [t EXCEPT !.pos = r.pos, !.pc = "opened", !.turns = 0]
      ELSE [t EXCEPT !.pos = r.pos, !.len = r.data[1],
                     !.pc = IF r.data[1] # 0 THEN "subblock" ELSE "block"]

\* Open: the length of the next sub-block is read at pos; pc tells the loop
\* that goes on
GifOpenLen(t, stream, pos) ==
  LET r == ReadProc(stream, pos, 1, 1)
  IN  IF r.items < 1 THEN TermReturn([t EXCEPT !.pos = r.pos], "EOF reading sub-block")
      ELSE [t EXCEPT !.pos = r.pos, !.len = r.data[1],
                     !.pc = IF r.data[1] # 0 THEN "subblock" ELSE "block"]

\* Open: the signature, the logical screen descriptor, the global colour table
GifOpenHeader(t, stream) ==
  LET v  == GifValidate(stream, t.pos)
      p  == ReadProc(stream, SeekProc(stream, v.pos, 4, "SEEK_CUR"), 1, 1)
      bg == ReadProc(stream, p.pos, 1, 1)
      at == SeekProc(stream, bg.pos, 1, "SEEK_CUR")
  IN  IF ~v.ret THEN TermReturn([t EXCEPT !.pos = v.pos], "magic number")
      ELSE IF p.items < 1 THEN TermReturn([t EXCEPT !.pos = p.pos], "EOF reading Logical Screen Descriptor")
      ELSE IF bg.items < 1 THEN TermReturn([t EXCEPT !.pos = bg.pos], "EOF reading Logical Screen Descriptor")
      ELSE [t EXCEPT !.pc = "block",
                     !.global_color_table_offset = IF ColourTableBytes(p.data[1]) > 0 THEN at ELSE 0,
                     !.global_color_table_size = ColourTableBytes(p.data[1]) \div 3,
                     !.pos = SeekProc(stream, at, ColourTableBytes(p.data[1]), "SEEK_CUR")]

\* the turn without gce_offset = 0 after an image descriptor
GifOpenBlockKeepsGce(t, stream) ==
  LET b   == ReadProc(stream, t.pos, 1, 1)
      block == b.data[1]
      p   == ReadProc(stream, SeekProc(stream, b.pos, 8, "SEEK_CUR"), 1, 1)
      lzw == SeekProc(stream, SeekProc(stream, p.pos, ColourTableBytes(p.data[1]), "SEEK_CUR"),
                      1, "SEEK_CUR")
      ext == ReadProc(stream, b.pos, 1, 1)
      t1  == Turn(t)
      id  == [t1 EXCEPT !.image_descriptor_offsets = Append(@, b.pos),
                        !.graphic_control_extension_offsets = Append(@, t.gce_offset)]
  IN  IF b.items < 1 THEN TermReturn([t1 EXCEPT !.pos = b.pos], "EOF reading blocks")
      ELSE IF block = GIF_BLOCK_IMAGE_DESCRIPTOR
      THEN IF p.items < 1 THEN TermReturn([id EXCEPT !.pos = p.pos], "EOF reading Image Descriptor")
           ELSE GifOpenLen(id, stream, lzw)
      ELSE IF block = GIF_BLOCK_EXTENSION
      THEN IF ext.items < 1 THEN TermReturn([t1 EXCEPT !.pos = ext.pos], "EOF reading extension")
           ELSE IF ext.data[1] = GIF_EXT_GRAPHIC_CONTROL
           THEN GifOpenLen([t1 EXCEPT !.gce_offset = ext.pos], stream, ext.pos)
           ELSE GifOpenLen(t1, stream, ext.pos)
      ELSE IF block = GIF_BLOCK_TRAILER
      THEN [t1 EXCEPT !.pos = b.pos, !.pc = "opened", !.turns = 0]
      ELSE TermReturn([t1 EXCEPT !.pos = b.pos], "Invalid GIF block found")

\* Open: one turn of while (block != GIF_BLOCK_TRAILER)
GifOpenBlock(t, stream) ==
  LET b   == ReadProc(stream, t.pos, 1, 1)
      block == b.data[1]
      p   == ReadProc(stream, SeekProc(stream, b.pos, 8, "SEEK_CUR"), 1, 1)
      lzw == SeekProc(stream, SeekProc(stream, p.pos, ColourTableBytes(p.data[1]), "SEEK_CUR"),
                      1, "SEEK_CUR")
      ext == ReadProc(stream, b.pos, 1, 1)
      t1  == Turn(t)
      id  == [t1 EXCEPT !.image_descriptor_offsets = Append(@, b.pos),
                        !.graphic_control_extension_offsets = Append(@, t.gce_offset),
                        !.gce_offset = 0]
  IN  IF b.items < 1 THEN TermReturn([t1 EXCEPT !.pos = b.pos], "EOF reading blocks")
      ELSE IF block = GIF_BLOCK_IMAGE_DESCRIPTOR
      THEN IF p.items < 1 THEN TermReturn([id EXCEPT !.pos = p.pos], "EOF reading Image Descriptor")
           ELSE GifOpenLen(id, stream, lzw)
      ELSE IF block = GIF_BLOCK_EXTENSION
      THEN IF ext.items < 1 THEN TermReturn([t1 EXCEPT !.pos = ext.pos], "EOF reading extension")
           ELSE IF ext.data[1] = GIF_EXT_GRAPHIC_CONTROL
           THEN GifOpenLen([t1 EXCEPT !.gce_offset = ext.pos], stream, ext.pos)
           ELSE GifOpenLen(t1, stream, ext.pos)
      ELSE IF block = GIF_BLOCK_TRAILER
      THEN [t1 EXCEPT !.pos = b.pos, !.pc = "opened", !.turns = 0]
      ELSE TermReturn([t1 EXCEPT !.pos = b.pos], "Invalid GIF block found")

\* Open: one turn of while (len != 0)
GifOpenSubBlock(t, stream) ==
  GifOpenLen(Turn(t), stream, SeekProc(stream, t.pos, t.len, "SEEK_CUR"))

\* a read of one byte into b whose result Load does not look at
ReadByteUnchecked(stream, pos, b) ==
  LET r == ReadProc(stream, pos, 1, 1)
  IN  [b |-> IF r.items < 1 THEN b ELSE r.data[1], pos |-> r.pos]

\* Load of one frame, up to its sub-blocks: the image descriptor, the colour
\* table, the frame, the code size and the length of the first sub-block
GifLoadFrame(t, stream, page, memory) ==
  LET id  == ReadProc(stream, SeekProc(stream, t.pos, t.image_descriptor_offsets[page + 1], "SEEK_SET"), 1, 8)
      p   == ReadByteUnchecked(stream, id.pos, 0)
      pal == ReadProc(stream, p.pos, 1, ColourTableBytes(p.b))
      interlaced == IF BitAndNat(p.b, 64) # 0 THEN 1 ELSE 0
      min == ReadByteUnchecked(stream, pal.pos, interlaced)
      b   == ReadByteUnchecked(stream, min.pos, min.b)
  IN  IF page >= Len(t.image_descriptor_offsets) THEN TermReturn(t, "nullptr")
      ELSE IF ~memory THEN TermReturn([t EXCEPT !.pos = id.pos], "DIB allocation failed")
      ELSE IF b.b = 0 THEN TermReturn([t EXCEPT !.pos = b.pos, !.len = 0], "dib")
      ELSE [t EXCEPT !.pc = "data", !.pos = b.pos, !.len = b.b]

\* Load: one turn of while (b)
GifLoadSubBlock(t, stream) ==
  LET data == ReadProc(stream, t.pos, t.len, 1)
      b    == ReadByteUnchecked(stream, data.pos, t.len)
      t1   == [Turn(t) EXCEPT !.pos = b.pos, !.len = b.b]
  IN  IF b.b = 0 THEN TermReturn(t1, "dib") ELSE t1

\* the blocks the streams are made of: a frame of one sub-block, a frame with a
\* local colour table and two sub-blocks, a graphic control extension, a
\* comment whose sub-block is longer than what follows, the trailer, no block
GifPieces ==
  { << 44, 0, 0, 0, 0, 1, 0, 1, 0, 0, 2, 2, 68, 1, 0 >>,
    << 44, 0, 0, 0, 0, 1, 0, 1, 0, 128, 0, 0, 0, 255, 255, 255, 2, 1, 68, 1, 1, 0 >>,
    << 33, 249, 4, 0, 0, 0, 0, 0 >>,
    << 33, 254, 9, 65 >>,
    << 59 >>,
    << 7 >> }

GifHeads ==
  { << 71, 73, 70, 56, 57, 97, 1, 0, 1, 0, 0, 0, 0 >>,
    << 71, 73, 70, 56, 55, 97, 1, 0, 1, 0, 128, 0, 0, 1, 2, 3, 4, 5, 6 >> }

\* a head, a block, and a frame or nothing, then the trailer
GifStreams ==
  { h \o a \o b \o << GIF_BLOCK_TRAILER >> :
      h \in GifHeads, a \in GifPieces,
      b \in { << 44, 0, 0, 0, 0, 1, 0, 1, 0, 0, 2, 2, 68, 1, 0 >>, << >> } }

\* a stream whole, without its trailer, cut in its last sub-block, or in its middle
GifCuts(s) == { SubSeq(s, 1, n) : n \in { Len(s), Len(s) - 1, Len(s) - 3, Len(s) \div 2 } }

\* a stream whole, or without its last byte
TermCuts(s) == { SubSeq(s, 1, n) : n \in { Len(s), Len(s) - 1 } }

RleStreams(menu) == { a \o b : a \in menu, b \in menu \cup { << >> } }

TermStart(kind, pc) ==
  [kind |-> kind, pc |-> pc, pos |-> 0, turns |-> 0, ret |-> "", len |-> 0,
   d |-> << >>, w |-> << >>, ch |-> 0, calls |-> 0,
   image_descriptor_offsets |-> << >>,
   graphic_control_extension_offsets |-> << >>, gce_offset |-> 0, pages |-> 0,
   global_color_table_offset |-> 0, global_color_table_size |-> 0]

TermInit ==
  /\ \/ /\ \E s \in RleStreams(RleMenu) : tStream \in TermCuts(s)
        /\ tl = [TermStart("RLE8", "run") EXCEPT
                  !.d = DecoderStart("RLE8", MaxRleWidth, 1),
                  !.w = [dib |-> AllocateRows(MaxRleWidth, 1), oob |-> {}]]
     \/ /\ \E s \in RleStreams(SgiMenu) : tStream \in TermCuts(s)
        /\ tl = [TermStart("SGI", "call") EXCEPT !.d = [pos |-> 0, cnt |-> 0, val |-> 0]]
     \/ /\ \E s \in GifStreams : tStream \in GifCuts(s)
        /\ tl = TermStart("GIF", "Open")
  /\ LzwIdle
  /\ DetIdle
  /\ RleIdle
  /\ PlayIdle
  /\ HdrIdle
  /\ AllocIdle
  /\ WalkIdle
  /\ WidthIdle
  /\ DecIdle
  /\ PlanesIdle

TermRle8 ==
  /\ tl.kind = "RLE8" /\ tl.pc = "run"
  /\ \E r \in { Rle8Turn(tl.d, tStream, tl.w) } : tl' = TermRle8Turn(tl, r)
  /\ UNCHANGED tStream
  /\ TermFrame

TermSgiCall ==
  /\ tl.kind = "SGI" /\ tl.pc = "call"
  /\ tl' = SgiCall(tl, tStream)
  /\ UNCHANGED tStream
  /\ TermFrame

TermSgiCount ==
  /\ tl.kind = "SGI" /\ tl.pc = "count"
  /\ tl' = SgiCountTurn(tl, tStream)
  /\ UNCHANGED tStream
  /\ TermFrame

TermGifOpen ==
  /\ tl.kind = "GIF" /\ tl.pc = "Open"
  /\ tl' = GifOpenHeader(tl, tStream)
  /\ UNCHANGED tStream
  /\ TermFrame

TermGifBlock ==
  /\ tl.kind = "GIF" /\ tl.pc = "block"
  /\ tl' = GifOpenBlock(tl, tStream)
  /\ UNCHANGED tStream
  /\ TermFrame

TermGifSubBlock ==
  /\ tl.kind = "GIF" /\ tl.pc = "subblock"
  /\ tl' = GifOpenSubBlock(tl, tStream)
  /\ UNCHANGED tStream
  /\ TermFrame

\* Load of a page, on what Open returned
TermGifLoad ==
  /\ tl.kind = "GIF" /\ tl.pc = "opened"
  /\ \E page \in 0..1, memory \in BOOLEAN :
       tl' = GifLoadFrame(tl, tStream, page, memory)
  /\ UNCHANGED tStream
  /\ TermFrame

TermGifData ==
  /\ tl.kind = "GIF" /\ tl.pc = "data"
  /\ tl' = GifLoadSubBlock(tl, tStream)
  /\ UNCHANGED tStream
  /\ TermFrame

TermNext ==
  \/ TermRle8 \/ TermSgiCall \/ TermSgiCount
  \/ TermGifOpen \/ TermGifBlock \/ TermGifSubBlock \/ TermGifLoad \/ TermGifData

\* every loop takes its next turn
SpecTerm == TermInit /\ [][TermNext]_vars /\ WF_vars(TermNext)


(***************************************************************************)
(* Open of the GIF plugin on whole files, and PageCount on what it returns. *)
(* The files are a head, up to MaxOpenPieces blocks and the trailer.        *)
(***************************************************************************)
MaxOpenPieces == 3

\* a frame of one sub-block, a frame with a local colour table and two
\* sub-blocks, a graphic control extension, a comment
OpenPieces ==
  { << 44, 0, 0, 0, 0, 1, 0, 1, 0, 0, 2, 2, 68, 1, 0 >>,
    << 44, 0, 0, 0, 0, 1, 0, 1, 0, 128, 0, 0, 0, 255, 255, 255, 2, 1, 68, 1, 1, 0 >>,
    << 33, 249, 4, 0, 0, 0, 0, 0 >>,
    << 33, 254, 1, 65, 0 >> }

OpenPieceSeqs == UNION { [1..n -> OpenPieces] : n \in 0..MaxOpenPieces }

\* the bytes of the first n pieces
RECURSIVE PiecesBytes(_, _)
PiecesBytes(ps, n) == IF n = 0 THEN << >> ELSE PiecesBytes(ps, n - 1) \o ps[n]

OpenStreamOf(h, ps) == h \o PiecesBytes(ps, Len(ps)) \o << GIF_BLOCK_TRAILER >>

\* int PageCount(io, handle, data)
PageCount(t) == Len(t.image_descriptor_offsets)

OpenInit ==
  /\ \E h \in GifHeads, ps \in OpenPieceSeqs : tStream \in TermCuts(OpenStreamOf(h, ps))
  /\ tl = TermStart("GIF", "Open")
  /\ LzwIdle
  /\ DetIdle
  /\ RleIdle
  /\ PlayIdle
  /\ HdrIdle
  /\ AllocIdle
  /\ WalkIdle
  /\ WidthIdle
  /\ DecIdle
  /\ PlanesIdle

TermPageCount ==
  /\ tl.kind = "GIF" /\ tl.pc = "opened"
  /\ tl' = [tl EXCEPT !.pc = "counted", !.pages = PageCount(tl)]
  /\ UNCHANGED tStream
  /\ TermFrame

OpenNext == TermGifOpen \/ TermGifBlock \/ TermGifSubBlock \/ TermPageCount

SpecOpen == OpenInit /\ [][OpenNext]_vars

(***************************************************************************)
(* The rows of a frame.  Load stores each decoded row at the row index y    *)
(* and Save compresses the row at y; both then step y, through the four     *)
(* passes when the frame is interlaced.  visited lists the row indices in   *)
(* the order they were stored or compressed.                                *)
(***************************************************************************)
MaxWalkHeight == 20   \* heights of the frames: 1 .. MaxWalkHeight

GIF_INTERLACE_PASSES == 4
g_GifInterlaceOffset == << 0, 4, 2, 1 >>
g_GifInterlaceIncrement == << 8, 8, 4, 2 >>

\* y += g_GifInterlaceIncrement[interlacepass];
\* if (y >= height && ++interlacepass < GIF_INTERLACE_PASSES) y = g_GifInterlaceOffset[interlacepass];
\* and y++ when the frame is not interlaced
GifRowAdvance(w) ==
  IF w.interlaced
  THEN LET y1 == w.y + g_GifInterlaceIncrement[w.interlacepass + 1]
       IN  IF y1 >= w.height
           THEN IF w.interlacepass + 1 < GIF_INTERLACE_PASSES
                THEN [w EXCEPT !.interlacepass = @ + 1, !.y = g_GifInterlaceOffset[w.interlacepass + 2]]
                ELSE [w EXCEPT !.interlacepass = @ + 1, !.y = y1]
           ELSE [w EXCEPT !.y = y1]
  ELSE [w EXCEPT !.y = @ + 1]

\* Load: the last pixel of the row at y was stored (++x >= width); the next
\* row, or stringtable->Done() when y >= height
GifLoadRow(w) ==
  LET w1 == GifRowAdvance([w EXCEPT !.visited = Append(@, w.y)])
  IN  IF w1.y >= w1.height THEN [w1 EXCEPT !.pc = "done"] ELSE w1

\* Save: one turn of while (y < output_height): the row at y is compressed,
\* then y steps
GifSaveRow(w) ==
  LET w1 == GifRowAdvance([w EXCEPT !.visited = Append(@, w.y)])
  IN  IF w1.y < w1.height THEN w1 ELSE [w1 EXCEPT !.pc = "done"]

WalkInit ==
  /\ \E op \in { "Load", "Save" }, height \in 1..MaxWalkHeight, interlaced \in BOOLEAN :
       iw = [op |-> op, height |-> height, interlaced |-> interlaced,
             y |-> 0, interlacepass |-> 0, visited |-> << >>, pc |-> "rows"]
  /\ LzwIdle
  /\ DetIdle
  /\ RleIdle
  /\ PlayIdle
  /\ HdrIdle
  /\ AllocIdle
  /\ TermIdle
  /\ WidthIdle
  /\ DecIdle
  /\ PlanesIdle

WalkLoadRow ==
  /\ iw # << >>
  /\ iw.op = "Load"
  /\ iw.pc = "rows"
  /\ iw' = GifLoadRow(iw)
  /\ WalkFrame

WalkSaveRow ==
  /\ iw # << >>
  /\ iw.op = "Save"
  /\ iw.pc = "rows"
  /\ iw.y < iw.height
  /\ iw' = GifSaveRow(iw)
  /\ WalkFrame

WalkNext == WalkLoadRow \/ WalkSaveRow

SpecWalk == WalkInit /\ [][WalkNext]_vars


(***************************************************************************)
(* The compressor, one pixel at a time.  Save's calls as in the LZW client  *)
(* above; a call of Compress is one step, or is followed through its loop   *)
(* one turn per step, so that every code that is allocated and every code   *)
(* that is emitted is a step.                                               *)
(***************************************************************************)
\* the output buffer sizes of the calls on an image
WidthChunks(img) == IF img.chunked THEN { 1, Unbounded } ELSE { Unbounded }

\* the state of the loop outside a call
LoopIdle(st) == [st |-> st, out |-> << >>, halted |-> TRUE, ret |-> FALSE, len |-> 0]

WidthInit ==
  /\ cwSrc \in LzwInputs
  /\ cw = [pc |-> "fill", row |-> 0, r |-> LoopIdle(LzwStart(cwSrc))]
  /\ LzwIdle
  /\ DetIdle
  /\ RleIdle
  /\ PlayIdle
  /\ HdrIdle
  /\ AllocIdle
  /\ TermIdle
  /\ WalkIdle
  /\ DecIdle
  /\ PlanesIdle

\* memcpy(stringtable->FillInputBuffer(line), scanline, line) for the next row
CwFill ==
  /\ cw # << >>
  /\ cw.pc = "fill"
  /\ cw.row < Len(cwSrc.rows)
  /\ cw' = [pc |-> "call", row |-> cw.row + 1,
            r |-> LoopIdle(FillInputBuffer(cw.r.st, cwSrc.rows[cw.row + 1]))]
  /\ UNCHANGED cwSrc
  /\ WidthFrame

\* a call of Compress followed turn by turn: past the test of its entry, into
\* the loop
CwCall ==
  /\ cw # << >>
  /\ cw.pc = "call"
  /\ ~(cw.r.st.m_bufferSize = 0 \/ cw.r.st.m_done)
  /\ \E len \in WidthChunks(cwSrc) :
       cw' = [cw EXCEPT !.pc = "loop",
                        !.r = [st |-> cw.r.st, out |-> << >>, halted |-> FALSE, ret |-> FALSE, len |-> len]]
  /\ UNCHANGED cwSrc
  /\ WidthFrame

\* a call of Compress from its entry to its return; after false the next row
CwCompress ==
  /\ cw # << >>
  /\ cw.pc = "call"
  /\ ~cw.r.st.ub
  /\ \E len \in WidthChunks(cwSrc) :
       \E r \in { Compress(cw.r.st, len) } :
         cw' = [cw EXCEPT !.pc = IF r.ret THEN "call" ELSE "fill", !.r = r]
  /\ UNCHANGED cwSrc
  /\ WidthFrame

\* one turn of while (m_bufferPos < m_bufferSize), or the return after it
CwPixel ==
  /\ cw # << >>
  /\ cw.pc = "loop"
  /\ ~cw.r.st.ub
  /\ \E r \in { CompressStep(cw.r, cw.r.len) } :
       cw' = [cw EXCEPT !.pc = IF r.halted THEN "call" ELSE "loop", !.r = r]
  /\ UNCHANGED cwSrc
  /\ WidthFrame

\* w = stringtable->CompressEnd(last), after the last row
CwEnd ==
  /\ cw # << >>
  /\ cw.pc = "fill"
  /\ ~cw.r.st.ub
  /\ cw.row = Len(cwSrc.rows)
  /\ \E e \in { CompressEnd(cw.r.st) } :
       cw' = [cw EXCEPT !.pc = "done", !.r = [LoopIdle(e.st) EXCEPT !.out = e.out]]
  /\ UNCHANGED cwSrc
  /\ WidthFrame

WidthNext == CwFill \/ CwCall \/ CwCompress \/ CwPixel \/ CwEnd

SpecWidth == WidthInit /\ [][WidthNext]_vars


(***************************************************************************)
(* The decompressor on the bytes of any file.  Load hands the minimum code  *)
(* size byte of the file to Initialize and every sub-block to Decompress,   *)
(* with a buffer of 4096 bytes.  A call of Decompress is one step, or is    *)
(* followed through its loops one turn per step.                            *)
(***************************************************************************)
MaxMinCode   == 13     \* minimum code sizes of the short streams: 0 .. MaxMinCode
MaxCodeBytes == 3      \* lengths of the short streams: 0 .. MaxCodeBytes
CeilingZeros == 5410   \* zero bytes of the long stream: code 0 until the table is full

LoadBuf == 4096

\* m_strings has MAX_LZW_CODE slots: the code whose string was last read,
\* m_oldCode, is a slot of it or the mark MAX_LZW_CODE of no code yet
SlotRead(st) == st.m_oldCode \in 0..MAX_LZW_CODE

\* the turns of the loops up to the return, or to a read outside m_strings
RECURSIVE DecompressRun(_, _, _)
DecompressRun(r, len, n) ==
  IF r.halted \/ ~SlotRead(r.st) \/ n = 0 THEN r
  ELSE IF n = 1 THEN DecompressStep(r, len)
  ELSE DecompressRun(DecompressRun(r, len, n \div 2), len, n - (n \div 2))

DecLoopStart(st) ==
  [st |-> st, out |-> << >>, phase |-> "byte", halted |-> FALSE, ret |-> FALSE, len |-> LoadBuf]

\* the bytes of the short streams: codes 0, 2, 4098 (0x1002) and all ones
CodeBytes == { 0, 2, 16, 255 }

ShortStreams ==
  UNION { [1..n -> CodeBytes] : n \in 0..MaxCodeBytes }

\* 8-bit pixels and code 0 for as long as the table takes to fill and for 11
\* bits more, then at 12 bits the clear code 0x100 and codes at 9 bits, or
\* the end code 0x101
CeilingTails == { << 0, 0, 8, 0, 0, 0, 0, 0 >>, << 0, 8, 8 >> }

CeilingStreams == { [i \in 1..CeilingZeros |-> 0] \o tail : tail \in CeilingTails }

DecInputs ==
  { [minCodeSize |-> m, stream |-> s, blocks |-> { 1, GIF_SUBBLOCK }] :
      m \in 0..MaxMinCode, s \in ShortStreams }
    \cup { [minCodeSize |-> 8, stream |-> s, blocks |-> { GIF_SUBBLOCK }] : s \in CeilingStreams }

DecInit ==
  /\ zIn \in DecInputs
  /\ zd = [pc |-> "fill", pos |-> 0,
           r |-> [DecLoopStart(Initialize(StringTableNew, zIn.minCodeSize)) EXCEPT !.halted = TRUE]]
  /\ LzwIdle
  /\ DetIdle
  /\ RleIdle
  /\ PlayIdle
  /\ HdrIdle
  /\ AllocIdle
  /\ TermIdle
  /\ WalkIdle
  /\ WidthIdle
  /\ PlanesIdle

\* io->read_proc(stringtable->FillInputBuffer(b), b, 1, handle) for the next sub-block
ZdFill ==
  /\ zd # << >>
  /\ zd.pc = "fill"
  /\ zd.pos < Len(zIn.stream)
  /\ \E b \in zIn.blocks :
       LET n == MIN(b, Len(zIn.stream) - zd.pos)
       IN  zd' = [pc |-> "call", pos |-> zd.pos + n,
                  r |-> [zd.r EXCEPT !.st = FillInputBuffer(@, SubSeq(zIn.stream, zd.pos + 1, zd.pos + n))]]
  /\ UNCHANGED zIn
  /\ DecFrame

\* a call of Decompress followed turn by turn: past the test of its entry
ZdCall ==
  /\ zd # << >>
  /\ zd.pc = "call"
  /\ ~(zd.r.st.m_bufferSize = 0 \/ zd.r.st.m_done)
  /\ zd' = [zd EXCEPT !.pc = "loop", !.r = DecLoopStart(zd.r.st)]
  /\ UNCHANGED zIn
  /\ DecFrame

\* one turn of the for loop or of the while loop of Decompress
ZdStep ==
  /\ zd # << >>
  /\ zd.pc = "loop"
  /\ \E r \in { DecompressStep(zd.r, LoadBuf) } :
       zd' = [zd EXCEPT !.r = r,
                        !.pc = IF ~SlotRead(r.st) THEN "fault"
                               ELSE IF r.halted THEN "call" ELSE "loop"]
  /\ UNCHANGED zIn
  /\ DecFrame

\* while (stringtable->Decompress(buf, &size)): a call from its entry to its
\* return; after false the next sub-block
ZdDecompress ==
  /\ zd # << >>
  /\ zd.pc = "call"
  /\ \E r \in { IF zd.r.st.m_bufferSize = 0 \/ zd.r.st.m_done
                THEN Decompress(zd.r.st, LoadBuf)
                ELSE DecompressRun(DecLoopStart(zd.r.st), LoadBuf, 10 * zd.r.st.m_bufferSize + 40) } :
       zd' = [zd EXCEPT !.r = r,
                        !.pc = IF ~SlotRead(r.st) THEN "fault"
                               ELSE IF r.ret THEN "call" ELSE "fill"]
  /\ UNCHANGED zIn
  /\ DecFrame

\* the block terminator: no sub-block is left
ZdEnd ==
  /\ zd # << >>
  /\ zd.pc = "fill"
  /\ zd.pos = Len(zIn.stream)
  /\ zd' = [zd EXCEPT !.pc = "done"]
  /\ UNCHANGED zIn
  /\ DecFrame

DecNext == ZdFill \/ ZdCall \/ ZdStep \/ ZdDecompress \/ ZdEnd

SpecDecode == DecInit /\ [][DecNext]_vars


(***************************************************************************)
(* The rows of a PCX image of 4 planes of 1 bit.  Load reads a line of      *)
(* bytes_per_line x 4 bytes, builds a nibble per pixel from the 4 planes   *)
(* and packs the nibbles two to a byte into the row of the dib.            *)
(***************************************************************************)
MaxPlaneWidth  == 9   \* widths of the images: 1 .. MaxPlaneWidth
MaxPlaneBytes  == 2   \* bytes_per_line of the header: 1 .. MaxPlaneBytes
MaxPlaneStream == 8   \* the streams hold 0 .. MaxPlaneStream bytes of one value, or one run

PcxPlanes == 4

\* FreeImage_GetPitch of a dib of 4 bits per pixel
PcxPitch4(width) == 4 * ((width * 4 + 31) \div 32)

\* line[index] & mask for the pixel x of a plane; a byte past the end of line
\* is whatever the heap holds there
PcxPlaneBit(line, bytes_per_line, plane, x, fill) ==
  LET index == (x \div 8) + plane * bytes_per_line
      mask  == Pow2(7 - (x % 8))
      byte  == IF index < Len(line) THEN line[index + 1] ELSE fill
  IN  BitAndNat(byte, mask) # 0

\* for (x = 0; x < width; x++) buffer[x] |= (line[index] & mask) ? bit : 0;
PcxPlanePass(buffer, line, bytes_per_line, plane, fill) ==
  [i \in 1..Len(buffer) |->
     IF PcxPlaneBit(line, bytes_per_line, plane, i - 1, fill)
     THEN BitOrNat(buffer[i], Pow2(plane)) ELSE buffer[i]]

\* the indices of line read past its end by the pass of a plane
PcxPlaneOutside(lineLength, bytes_per_line, plane, width) ==
  { (x \div 8) + plane * bytes_per_line : x \in 0..(width - 1) } \ 0..(lineLength - 1)

\* for (x = 0; x < width / 2; x++) bits[x] = (buffer[2*x] << 4) | buffer[2*x+1];
PcxNibbleRow(bits, buffer) ==
  [i \in 1..Len(bits) |->
     IF i - 1 < Len(buffer) \div 2
     THEN BitOrNat((buffer[2 * i - 1] * 16) % 256, buffer[2 * i]) ELSE bits[i]]

PlaneStreams ==
  { Bytes(n, v) : n \in 0..MaxPlaneStream, v \in { 255, 170 } }
  \cup { << 192 + n, 255 >> : n \in 1..MaxPlaneStream }

PlanesInit ==
  /\ pnSrc \in PlaneStreams
  /\ \E width \in 1..MaxPlaneWidth, bytes_per_line \in 1..MaxPlaneBytes,
        height \in 1..MaxRleHeight, rle \in BOOLEAN :
       pn = [d |-> [PcxStart(bytes_per_line * PcxPlanes, height, rle)
                      EXCEPT !.pitch = PcxPitch4(width)],
             width |-> width, bytes_per_line |-> bytes_per_line,
             plane |-> 0, buffer |-> Bytes(width, 0),
             dib |-> AllocateRows(PcxPitch4(width), height), outside |-> {}]
  /\ LzwIdle
  /\ DetIdle
  /\ RleIdle
  /\ PlayIdle
  /\ HdrIdle
  /\ AllocIdle
  /\ TermIdle
  /\ WalkIdle
  /\ WidthIdle
  /\ DecIdle

\* readLine of a run-length encoded line: one byte of the line
PnByte ==
  /\ pn.d.pc = "run"
  /\ pn.d.rle
  /\ pn.d.written < pn.d.lineLength
  /\ pn' = [pn EXCEPT !.d = PcxRunByte(pn.d, pnSrc, {}).d]
  /\ UNCHANGED pnSrc
  /\ PlanesFrame

\* the line is read (the normal read when the file is not compressed) and the
\* buffer of nibbles set to zero
PnLine ==
  /\ pn.d.pc = "run"
  /\ pn.d.rle => pn.d.written = pn.d.lineLength
  /\ LET d == IF pn.d.rle THEN pn.d ELSE PcxNormalRead(pn.d, pnSrc, {}).d
     IN  pn' = [pn EXCEPT !.d = [d EXCEPT !.pc = "planes"], !.plane = 0,
                          !.buffer = Bytes(pn.width, 0)]
  /\ UNCHANGED pnSrc
  /\ PlanesFrame

\* one plane of for (plane = 0; plane < 4; plane++)
PnPlane ==
  /\ pn.d.pc = "planes"
  /\ pn.plane < PcxPlanes
  /\ \E fill \in { 0, 255 } :
       pn' = [pn EXCEPT !.buffer = PcxPlanePass(@, pn.d.line, pn.bytes_per_line, pn.plane, fill),
                        !.outside = @ \cup PcxPlaneOutside(pn.d.lineLength, pn.bytes_per_line,
                                                           pn.plane, pn.width),
                        !.plane = @ + 1]
  /\ UNCHANGED pnSrc
  /\ PlanesFrame

\* the row of the dib is written, the rest of the line skipped, bits -= pitch
PnStore ==
  /\ pn.d.pc = "planes"
  /\ pn.plane = PcxPlanes
  /\ pn' = [pn EXCEPT !.dib[pn.d.height - pn.d.y] = PcxNibbleRow(@, pn.buffer),
                      !.d = PcxRowEnd(pn.d, pnSrc, << >>, {}).d]
  /\ UNCHANGED pnSrc
  /\ PlanesFrame

PlanesNext == PnByte \/ PnLine \/ PnPlane \/ PnStore

SpecPlanes == PlanesInit /\ [][PlanesNext]_vars


(***************************************************************************)
(* The compression tag of a BMP.  The Windows and the OS/2 2.x loaders on   *)
(* files of every depth whose info header carries any of the tags           *)
(* 0 .. MaxCompression, whole or cut short.                                 *)
(***************************************************************************)
MaxCompression == 6   \* the tags of the files: 0 (BI_RGB) .. MaxCompression

TaggedFiles ==
  { [compression |-> c] @@
    BmpFile(t, b, c, 0, 4, IF c \in { BI_BITFIELDS, BI_ALPHABITFIELDS } THEN 12 ELSE 0) :
      t \in { 40, 64 }, b \in BmpDepths, c \in 0..MaxCompression }

TagInit ==
  /\ \E f \in TaggedFiles : \E cut \in Cuts(f) :
       /\ hFile = [start |-> 0, cut |-> cut] @@ f
       /\ hStream = SubSeq(f.bytes, 1, cut)
  /\ \E header_only \in BOOLEAN, memory \in BOOLEAN :
       hl = HdrStart(header_only, memory, 0)
  /\ LzwIdle
  /\ DetIdle
  /\ RleIdle
  /\ PlayIdle
  /\ AllocIdle
  /\ TermIdle
  /\ WalkIdle
  /\ WidthIdle
  /\ DecIdle
  /\ PlanesIdle

TagNext == HdrBmpLoad \/ HdrWindows \/ HdrOS22X

SpecTag == TagInit /\ [][TagNext]_vars


\* ------------------------------ properties ------------------------------

(***************************************************************************)
(* C1.  LZW round trip: when every pixel of a sequence S has gone through   *)
(* CompressStart, Compress and CompressEnd, and the bytes produced have     *)
(* gone through Decompress of an engine initialised with the same minimum   *)
(* code size, the bytes returned are exactly S, for the empty S as for any  *)
(* other.                                                                   *)
(***************************************************************************)
C1_RoundTrip == lz.pc = "done" => refDec = lzwSrc.pixels

\* the part of C1 the engine keeps: the round trip of a sequence of at least one pixel
LzwRoundTripNonEmpty == (lz.pc = "done" /\ lzwSrc.pixels # << >>) => refDec = lzwSrc.pixels

\* a round trip in which the compressor filled its table and sent a clear code
LzwRoundTripAcrossReset ==
  /\ lz.pc = "done"
  /\ refDec = lzwSrc.pixels
  /\ Len(lzwSrc.pixels) > MAX_LZW_CODE
  /\ renc.m_nextCode < MAX_LZW_CODE

(***************************************************************************)
(* C8.  Decompress is resumable: whatever the sizes (at least 1) of the     *)
(* output buffers of the successive calls, the bytes returned, put end to   *)
(* end, are the bytes returned when the output buffer never fills, also     *)
(* when a call stops on the last byte of the input buffer.                  *)
(***************************************************************************)
C8_DecompressResumable ==
  /\ IsPrefix(decOut, refDec)
  /\ (lz.pc = "done" /\ ~dec.ub) => decOut = refDec

(***************************************************************************)
(* C9.  Compress is resumable: whatever the sizes (at least 1) of the       *)
(* output buffers of the successive calls, the bytes stored by Compress and *)
(* CompressEnd, put end to end, are the bytes stored when the output buffer *)
(* never fills; the pending bits are never lost from the accumulator.       *)
(***************************************************************************)
C9_CompressResumable ==
  /\ IsPrefix(encOut, refOut)
  /\ lz.pc \in {"dfill", "decompress", "done"} => encOut = refOut

\* the validate predicate of a codec on the stream as it stands at the call
ValidAtEntry(fif) == PluginValidate(fif, dStream, dt.entry, dOracle).ret

\* the places in the registry of the enabled codecs that validate the stream
Winners == { i \in 1..Len(Registry) : Registry[i] \in dEnabled /\ ValidAtEntry(Registry[i]) }

FirstWinner == CHOOSE i \in Winners : \A j \in Winners : i <= j

\* the codecs probed, in the order of the probes
Probed(via) ==
  LET sel == SelectSeq(dt.probes, LAMBDA p : p.via \in via)
  IN  [i \in 1..Len(sel) |-> sel[i].fif]

\* the enabled codecs among the first n of the registry
EnabledUpTo(n) == SelectSeq(SubSeq(Registry, 1, n), LAMBDA f : f \in dEnabled)

(***************************************************************************)
(* C3.  Detection result: FreeImage_GetFileTypeFromHandle probes the        *)
(* codecs in registration order and returns the first that is enabled and   *)
(* validates; no codec after it is probed, a disabled codec is not probed   *)
(* and never wins, and with a null handle or no enabled codec validating    *)
(* the result is FIF_UNKNOWN.                                               *)
(***************************************************************************)
C3_FirstEnabledValidWins ==
  dt.pc = "done" =>
    IF ~dHandle \/ Winners = {}
    THEN /\ dt.fif = FIF_UNKNOWN
         /\ Probed({"loop", "reprobe"}) = (IF dHandle THEN EnabledUpTo(Len(Registry)) ELSE << >>)
    ELSE /\ dt.fif = Registry[FirstWinner]
         /\ Probed({"loop", "reprobe"}) = EnabledUpTo(FirstWinner)

(***************************************************************************)
(* C3 as amended.  The same, except that when the first enabled codec that  *)
(* validates is TIFF, RAW is probed once more through FreeImage_ValidateFIF *)
(* and the result is FIF_RAW when that probe returns true.  The result is   *)
(* never a disabled codec.                                                  *)
(***************************************************************************)
C3_FirstWinsUnlessRaw ==
  dt.pc = "done" =>
    IF ~dHandle \/ Winners = {}
    THEN /\ dt.fif = FIF_UNKNOWN
         /\ Probed({"loop"}) = (IF dHandle THEN EnabledUpTo(Len(Registry)) ELSE << >>)
         /\ Probed({"reprobe"}) = << >>
    ELSE /\ Probed({"loop"}) = EnabledUpTo(FirstWinner)
         /\ dt.fif \in dEnabled
         /\ IF Registry[FirstWinner] = "TIFF"
            THEN /\ Probed({"reprobe"}) = << "RAW" >>
                 /\ dt.fif = IF dt.probes[Len(dt.probes)].ret THEN "RAW" ELSE "TIFF"
            ELSE /\ Probed({"reprobe"}) = << >>
                 /\ dt.fif = Registry[FirstWinner]

\* a disabled codec whose signature matches was passed over and a later codec won
C3_Witness ==
  /\ dt.pc = "done"
  /\ dt.fif = "GIF"
  /\ "PCX" \notin dEnabled
  /\ Probed({"loop"}) = << "BMP", "TIFF", "GIF" >>

\* the first winner is TIFF and the second probe of RAW succeeded
C3_WitnessRaw ==
  /\ dt.pc = "done"
  /\ dt.fif = "RAW"
  /\ Registry[FirstWinner] = "TIFF"

(***************************************************************************)
(* C4.  Detection preserves the stream position: every validate probe       *)
(* starts at the position the stream had at the call, and at the return the *)
(* position is that entry position, whichever codecs were probed and        *)
(* whatever they returned.                                                  *)
(***************************************************************************)
C4_PositionPreserved ==
  /\ \A i \in DOMAIN dt.probes : dt.probes[i].pos = dt.entry
  /\ dt.pc = "done" => dPos = dt.entry

\* returned from a non-zero position after probes that read and failed and one that succeeded
C4_Witness ==
  /\ dt.pc = "done"
  /\ dt.entry > 0
  /\ dPos = dt.entry
  /\ Len(dt.probes) >= 3
  /\ ~dt.probes[1].ret
  /\ dt.probes[Len(dt.probes)].ret

\* the bytes sig stand in the stream at position pos
HasBytesAt(pos, sig) ==
  /\ pos + Len(sig) <= Len(dStream)
  /\ SubSeq(dStream, pos + 1, pos + Len(sig)) = sig

\* the length of the signature a codec reads
SignatureLength(fif) ==
  CASE fif = "GIF" -> 6 [] fif = "PCX" -> 4 [] OTHER -> 2

(***************************************************************************)
(* C5.  Signature predicates: the BMP validate returns true exactly when    *)
(* the two bytes at the current position are 0x42 0x4D or 0x42 0x41, the    *)
(* GIF validate exactly when the six bytes are GIF87a or GIF89a; on a       *)
(* stream with fewer bytes left than the signature BMP, GIF, PCX, SGI and   *)
(* J2K validate false, and detection of an empty stream is FIF_UNKNOWN.     *)
(***************************************************************************)
C5_SignaturePredicates ==
  /\ \A i \in DOMAIN dt.probes :
       LET p == dt.probes[i]
       IN  /\ p.fif = "BMP" =>
                (p.ret <=> (HasBytesAt(p.pos, << 66, 77 >>) \/ HasBytesAt(p.pos, << 66, 65 >>)))
           /\ p.fif = "GIF" =>
                (p.ret <=> (\/ HasBytesAt(p.pos, << 71, 73, 70, 56, 55, 97 >>)
                            \/ HasBytesAt(p.pos, << 71, 73, 70, 56, 57, 97 >>)))
           /\ (/\ p.fif \in {"BMP", "GIF", "PCX", "SGI", "J2K"}
               /\ Len(dStream) - p.pos < SignatureLength(p.fif)) => ~p.ret
  /\ (dt.pc = "done" /\ Len(dStream) = dt.entry) => dt.fif = FIF_UNKNOWN

\* the first five bytes of a GIF signature, probed from a non-zero position: no codec accepts
C5_Witness ==
  /\ dt.pc = "done"
  /\ dt.entry > 0
  /\ HasBytesAt(dt.entry, << 71, 73, 70, 56, 57 >>)
  /\ Len(dStream) = dt.entry + 5
  /\ \E i, j \in DOMAIN dt.probes :
       /\ dt.probes[i].fif = "BMP" /\ ~dt.probes[i].ret
       /\ dt.probes[j].fif = "GIF" /\ ~dt.probes[j].ret
  /\ dt.fif = FIF_UNKNOWN

(***************************************************************************)
(* C6.  The RLE decoders never write outside their destination: BMP RLE8    *)
(* stores only in columns [0, width) of a scanline below |height|, BMP RLE4 *)
(* only inside its width x |height| staging buffer, the PCX line decoder    *)
(* only in the requested line length (and Load only inside the row of the   *)
(* dib), the SGI row decoder only width samples per row.  rOob is the set   *)
(* of the stores made outside; the statement is that it stays empty.        *)
(* LoadPixelDataRLE8 breaks it: after a literal run that ends past the      *)
(* width, the next literal run has a negative count, which read_proc takes  *)
(* as a huge unsigned size, and the bytes left in the stream are stored     *)
(* from the column past the width on.                                       *)
(***************************************************************************)
C6_NoWriteOutside == rOob = {}

\* the other three decoders do keep inside their destinations
RleOthersInside == rd.kind \in {"RLE4", "PCX", "SGI"} => rOob = {}

(***************************************************************************)
(* C7.  Over-long runs are truncated, not rejected: a BMP RLE8 or RLE4 run  *)
(* longer than the space left is clamped to that space, a space of zero     *)
(* included, and the decode goes on; it does not fail because of the run.   *)
(* Every failure of the two decoders is a failed read, so the statement is  *)
(* that a decode fails only with the stream used up.  LoadPixelDataRLE8     *)
(* breaks it: a literal run met with no space left asks read_proc for an    *)
(* item of size 0, gets 0 items and returns FALSE with bytes still unread.  *)
(***************************************************************************)
C7_FailsOnlyAtEndOfStream ==
  (rd.kind \in {"RLE8", "RLE4"} /\ rd.pc = "false") => rd.pos >= Len(rFile)

\* LoadPixelDataRLE4 does clamp and go on
Rle4FailsOnlyAtEndOfStream == (rd.kind = "RLE4" /\ rd.pc = "false") => rd.pos >= Len(rFile)

\* the pixel bytes of the rows, without the bytes that pad them to the pitch
PixelRows(rows, line) == [y \in DOMAIN rows |-> SubSeq(rows[y], 1, line)]

LoadReturned == rd.kind \in {"RLE8", "RAW"} /\ rd.pc # "run"

(***************************************************************************)
(* C2.  Byte-oriented RLE round trip: a buffer of a supported depth saved   *)
(* as BMP with the RLE flag and loaded again has identical pixel rows; for  *)
(* 8 bits, LoadPixelDataRLE8 applied to the RLEEncodeLine outputs of the    *)
(* rows followed by the end-of-bitmap pair returns TRUE with every row      *)
(* reproduced byte for byte, and neither side stores outside its buffer.    *)
(***************************************************************************)
C2_RleRoundTrip ==
  LoadReturned =>
    /\ rd.pc = "true"
    /\ PixelRows(rDib, GetLine(rImg.width, rImg.bpp))
         = PixelRows(rImg.bits, GetLine(rImg.width, rImg.bpp))
    /\ rOob = {}

\* an 8-bit row longer than 255 with equal and unequal neighbours, so with runs, pools
\* and their splits, has come back
C2_Witness ==
  /\ rd.kind = "RLE8" /\ rd.pc = "true"
  /\ rImg.width > 255
  /\ \E x \in 1..(rImg.width - 1) : rImg.bits[1][x] = rImg.bits[1][x + 1]
  /\ \E x \in 1..(rImg.width - 1) : rImg.bits[1][x] # rImg.bits[1][x + 1]
  /\ PixelRows(rDib, rImg.width) = PixelRows(rImg.bits, rImg.width)

\* the other depths come back as well
RawRoundTrip == rd.kind = "RAW" /\ rd.pc = "true" /\ rDib = rImg.bits

\* ---- the procedure the playback result is compared with ----

\* what the control block of the frame says; without one, unspecified and opaque
FrameDisposal(frame) ==
  IF frame.gce THEN DisposalMethod(frame.packed) ELSE GIF_DISPOSAL_UNSPECIFIED

FrameTransparent(frame) == frame.gce /\ HaveTransparent(frame.packed)

\* the screen position (row from the top, column) of the n-th pixel of the dib
ScreenRow(n) == LogicalHeight - 1 - ((n - 1) \div LogicalWidth)
ScreenCol(n) == (n - 1) % LogicalWidth

InRect(frame, r, c) ==
  /\ r >= frame.top /\ r < frame.top + frame.height
  /\ c >= frame.left /\ c < frame.left + frame.width

\* the frame's non-transparent pixels drawn into its rectangle
RefDraw(canvas, frame) ==
  [n \in DOMAIN canvas |->
     IF InRect(frame, ScreenRow(n), ScreenCol(n))
     THEN LET px == frame.pixels[ScreenRow(n) - frame.top + 1][ScreenCol(n) - frame.left + 1]
          IN  IF FrameTransparent(frame) /\ px = frame.transparent_color
              THEN canvas[n] ELSE Opaque(px)
     ELSE canvas[n]]

\* the disposal of a frame that is not the last: canvas is the screen before it
RefDispose(canvas, frame) ==
  IF FrameDisposal(frame) = GIF_DISPOSAL_PREVIOUS THEN canvas
  ELSE IF FrameDisposal(frame) = GIF_DISPOSAL_BACKGROUND
    THEN [n \in DOMAIN canvas |->
            IF InRect(frame, ScreenRow(n), ScreenCol(n)) THEN Background
            ELSE RefDraw(canvas, frame)[n]]
  ELSE RefDraw(canvas, frame)

\* the screen after the first j frames have been drawn and disposed of
RECURSIVE RefAfter(_, _)
RefAfter(frames, j) ==
  IF j = 0 THEN [n \in 1..(LogicalWidth * LogicalHeight) |-> Background]
  ELSE RefDispose(RefAfter(frames, j - 1), frames[j])

\* frames 0 .. K in order on a screen of background at alpha 0
Reference(frames, K) == RefDraw(RefAfter(frames, K), frames[K + 1])

RectInside(frame) ==
  frame.left + frame.width <= LogicalWidth /\ frame.top + frame.height <= LogicalHeight

(***************************************************************************)
(* C10.  Compositor equivalence: for every frame sequence and every index   *)
(* K, playback Load of frame K (backward search for a start frame, then     *)
(* forward render) yields the canvas of the reference procedure: a canvas   *)
(* of background at alpha 0, frames 0 .. K in order, each drawn with its    *)
(* non-transparent pixels into its rectangle and, before K, disposed of     *)
(* (rectangle reset to background, effect removed, or left).                *)
(* Playback breaks it for a frame without a control block, whose disposal   *)
(* and transparency it reads from the second byte of the file, and for a    *)
(* rectangle that leaves the logical screen, which it does not clip.        *)
(***************************************************************************)
C10_CompositorEquivalence ==
  pp.pc = "done" => (pCanvas = Reference(pFrames, pp.end) /\ pOob = {})

\* with a control block on every frame and every rectangle inside the screen the
\* two procedures agree
PlaybackAgreesOnWellFormed ==
  (pp.pc = "done" /\ \A f \in DOMAIN pFrames : pFrames[f].gce /\ RectInside(pFrames[f]))
    => (pCanvas = Reference(pFrames, pp.end) /\ pOob = {})

\* the two procedures differ with every rectangle inside the screen: a frame
\* without a control block before K is enough
PlaybackDiffersInsideScreen ==
  /\ pp.pc = "done"
  /\ \A f \in DOMAIN pFrames : RectInside(pFrames[f])
  /\ pCanvas # Reference(pFrames, pp.end)

(***************************************************************************)
(* C11.  The compositor skips the frames behind a full-canvas frame that is *)
(* restored to background: when frame K is rendered in playback mode and a  *)
(* frame j < K has the rectangle (0, 0, logicalwidth, logicalheight) and    *)
(* the disposal restore-to-background, no frame of index <= j is decoded;   *)
(* with 3 frames of which frame 1 is such a frame, rendering frame 2        *)
(* decodes frame 2 only.                                                    *)
(***************************************************************************)
FullCanvasBackground(frame) ==
  /\ frame.gce
  /\ DisposalMethod(frame.packed) = GIF_DISPOSAL_BACKGROUND
  /\ frame.left = 0 /\ frame.top = 0
  /\ frame.width = LogicalWidth /\ frame.height = LogicalHeight

C11_SkipsBehindBackground ==
  /\ \A j \in 0..(Len(pFrames) - 2) :
       FullCanvasBackground(pFrames[j + 1]) => \A i \in pp.decoded : i > j
  /\ (pp.pc = "done" /\ Len(pFrames) = 3 /\ FullCanvasBackground(pFrames[2]))
       => pp.decoded = { 2 }

\* frame 2 of 3 is rendered behind such a frame 1; frame 0 is an opaque full-canvas
\* frame that is left in place, which a walk past frame 1 would decode
C11_Witness ==
  /\ pp.pc = "done"
  /\ Len(pFrames) = 3
  /\ FullCanvasBackground(pFrames[2])
  /\ pFrames[1].gce /\ DisposalMethod(pFrames[1].packed) = GIF_DISPOSAL_LEAVE
  /\ pFrames[1].width = LogicalWidth /\ pFrames[1].left = 0
  /\ pp.decoded = { 2 }
  /\ pp.start = 2

(***************************************************************************)
(* C12.  A header-only decode reads no pixel data: for BMP, PCX and J2K,    *)
(* Load with the header-only flag returns a buffer that carries the width,  *)
(* the height, the bit depth and the palette of the file, and no read of    *)
(* it transfers a byte of the pixel-data region of the stream, whatever the *)
(* header variant and the bit depth.                                        *)
(* The PCX loader breaks it for an 8-bit image: it looks for the 256-colour *)
(* palette 769 bytes before the end of the stream and reads the byte it     *)
(* finds there, a pixel when the file has no such palette.                  *)
(***************************************************************************)
\* a read transferred a byte of the pixel rows of the file
ReadsPixelData ==
  \E r \in hl.reads :
    /\ r[1] < hFile.start + hFile.pixel_to
    /\ r[2] > hFile.start + hFile.pixel_from

\* the dib has the size, the depth and the palette entries of the file
CarriesHeader(dib) ==
  /\ dib.width = hFile.width /\ dib.height = hFile.height /\ dib.bpp = hFile.bpp
  /\ \A k \in DOMAIN hFile.palette : k \in DOMAIN dib.palette /\ dib.palette[k] = hFile.palette[k]

HeaderOnlyDone(codecs) ==
  /\ hl.pc = "done" /\ hl.header_only
  /\ hFile.codec \in codecs
  /\ hFile.start = 0 /\ hFile.cut = Len(hFile.bytes)

C12_HeaderOnlyReadsNoPixels ==
  HeaderOnlyDone({ "BMP", "PCX", "J2K" }) =>
    /\ ~ReadsPixelData
    /\ hl.ret = "dib" => (CarriesHeader(hl.dib) /\ ~hl.dib.has_pixels)

\* the BMP variants and J2K keep to it, and so does PCX at the other depths
HeaderOnlyBmpJ2k ==
  HeaderOnlyDone({ "BMP", "J2K" }) =>
    /\ ~ReadsPixelData
    /\ hl.ret = "dib" => (CarriesHeader(hl.dib) /\ ~hl.dib.has_pixels)

HeaderOnlyPcxOtherDepths ==
  (HeaderOnlyDone({ "PCX" }) /\ hFile.bpp # 8) =>
    /\ ~ReadsPixelData
    /\ hl.ret = "dib" => (CarriesHeader(hl.dib) /\ ~hl.dib.has_pixels)

\* an 8-bit PCX file that ends with its pixel rows, more than 769 bytes of them: the
\* header-only Load returned a buffer and read a pixel
HeaderOnlyPcxReadsPixel ==
  /\ HeaderOnlyDone({ "PCX" }) /\ hFile.bpp = 8
  /\ hFile.height = PcxTallHeight
  /\ hl.ret = "dib"
  /\ ReadsPixelData

(***************************************************************************)
(* C13. A stream that ends inside a structured header is a decode failure: *)
(* when the stream ends before the end of the BMP file header and info     *)
(* header, of the PCX header or of the SGI header, Load returns no buffer  *)
(* and gives a diagnostic; no buffer is built from fields that were not    *)
(* read.                                                                   *)
(***************************************************************************)
TruncatedHeader(codecs) ==
  /\ hl.pc = "done"
  /\ hFile.codec \in codecs
  /\ hFile.cut < hFile.header_end

C13_TruncatedHeaderFails ==
  TruncatedHeader({ "BMP", "PCX", "SGI" }) => hl.ret = "null" /\ hl.msg # ""

\* the part of C13 that holds: the PCX and the SGI loader look at the result of
\* the read of their header
TruncatedPcxSgiFails ==
  TruncatedHeader({ "PCX", "SGI" }) => hl.ret = "null" /\ hl.msg # ""

\* the BMP loader returns a buffer although the read of the info header was short
TruncatedBmpReturnsBuffer ==
  /\ TruncatedHeader({ "BMP" })
  /\ hFile.type = 40 /\ hFile.bpp = 24 /\ hFile.cut = 30 /\ hFile.start = 0
  /\ "infoheader" \in hl.short
  /\ hl.ret = "dib"
  /\ hl.dib.width = SmallSide /\ hl.dib.bpp = 24

\* the BMP loader returns nothing, and says nothing
TruncatedBmpSilent ==
  /\ TruncatedHeader({ "BMP" })
  /\ hl.ret = "null" /\ hl.msg = ""

(***************************************************************************)
(* C14. The failure of an allocation is a clean failure: when an allocation *)
(* made during a load or a save fails, the operation returns failure, no    *)
(* fault leaves the codec, no null pointer is used, and everything that was *)
(* allocated is released.                                                   *)
(***************************************************************************)
AllocDone(ops) == am.pc = "done" /\ am.failed /\ am.op \in ops

C14_AllocationFailureClean ==
  AllocDone({ "GifLoad", "GifSave", "BmpLoadRLE4", "BmpSaveRLE", "PcxLoad", "SgiLoad" })
    => am.ret = "fail" /\ am.fault = "none" /\ am.live = {}

\* the part of C14 that holds: the loaders that check what they allocate, or
\* catch std::bad_alloc, fail and release; but for the colour map of an 8-bit
\* PCX file, without which the load goes on
AllocCheckedClean ==
  /\ AllocDone({ "BmpLoadRLE4", "SgiLoad" }) => am.ret = "fail" /\ am.fault = "none" /\ am.live = {}
  /\ AllocDone({ "PcxLoad" }) /\ ~(am.kind = "vga" /\ am.failAt = 2)
       => am.ret = "fail" /\ am.fault = "none" /\ am.live = {}
  /\ AllocDone({ "GifLoad" }) /\ am.failAt = 1 => am.ret = "fail" /\ am.fault = "none" /\ am.live = {}

\* the string table of the GIF plugin was not obtained and Initialize stored
\* through nullptr; the frame stays allocated
AllocGifNullTable ==
  /\ AllocDone({ "GifLoad" }) /\ am.failAt = 2
  /\ am.fault = "nullptr" /\ am.ret = "none" /\ am.live = { "dib" }

\* the input buffer of the string table was not obtained when a longer
\* sub-block made it grow
AllocGifNullBuffer ==
  /\ AllocDone({ "GifLoad" }) /\ am.failAt = 5 /\ am.blocks = << 2 >>
  /\ am.fault = "nullptr"

\* the map of the compressor was not obtained
AllocGifNullMap ==
  /\ AllocDone({ "GifSave" }) /\ am.failAt = 2 /\ "m_buffer" \in am.live
  /\ am.fault = "nullptr"

\* std::bad_alloc leaves Save of the BMP plugin
AllocBmpSaveEscapes == AllocDone({ "BmpSaveRLE" }) /\ am.fault = "bad_alloc"

(***************************************************************************)
(* C15. Decoding ends on every finite stream: over any stream, sound,       *)
(* corrupt or cut, the loop of LoadPixelDataRLE8, get_rlechar, the block    *)
(* and sub-block loops of Open of the GIF plugin and the sub-block loop of  *)
(* its Load on a stream Open accepted each reach a return; and every turn   *)
(* of these loops moves the stream forward, or leaves the loop.             *)
(***************************************************************************)
LoopTurn ==
  tl # << >> /\ tl.pc \in { "run", "count", "block", "subblock", "data" }
    => tl'.pos > tl.pos \/ tl'.pc # tl.pc

C15_DecodingTerminates == <>(tl.pc = "return") /\ [][LoopTurn]_vars

\* Load went through two sub-blocks of a frame and returned it
C15_Witness ==
  /\ tl.kind = "GIF" /\ tl.pc = "return" /\ tl.ret = "dib"
  /\ Len(tl.image_descriptor_offsets) = 2
  /\ tl.turns = 2
  /\ tl.pos < Len(tStream)

(***************************************************************************)
(* C16. The size of a palette entry in the OS/2 2.x loader: a palette of N  *)
(* entries that fills N*3 bytes between the info header and the pixel data  *)
(* is read as N entries of 3 bytes, one that fills N*4 bytes as N entries   *)
(* of 4 bytes, wherever in the stream the bitmap starts.                    *)
(***************************************************************************)
OS22XLoaded(starts) ==
  /\ hl.pc \in { "done", "rle" }
  /\ hFile.codec = "BMP" /\ hFile.type = 64 /\ hFile.bpp <= 8
  /\ hFile.cut = Len(hFile.bytes)
  /\ hFile.start \in starts
  /\ hl.memory

C16_PaletteEntrySize ==
  OS22XLoaded({ 0, StartOffset })
    => /\ hl.pal_size = hFile.entry
       /\ hl.ret = "dib"
       /\ SubSeq(hl.dib.palette, 1, Len(hFile.palette)) = hFile.palette

\* the part of C16 that holds: a bitmap at the start of the stream
PaletteEntrySizeAtZero ==
  OS22XLoaded({ 0 })
    => /\ hl.pal_size = hFile.entry
       /\ hl.ret = "dib"
       /\ SubSeq(hl.dib.palette, 1, Len(hFile.palette)) = hFile.palette

\* a palette of two 3-byte entries in a bitmap at StartOffset is taken for one
\* of 4-byte entries, and read from the info header
PaletteEntrySizeWrong ==
  /\ OS22XLoaded({ StartOffset })
  /\ hFile.entry = 3 /\ Len(hFile.palette) = 2
  /\ hl.pal_size = 4
  /\ hl.ret = "dib"
  /\ SubSeq(hl.dib.palette, 1, Len(hFile.palette)) # hFile.palette

(***************************************************************************)
(* C17. The RAW tie-break: when the codec the loop found is TIFF, RAW is    *)
(* probed once more and the result is RAW when that probe succeeds and TIFF *)
(* when it does not; for any other codec found, and for none, there is no   *)
(* second probe and the result is what the loop found.                      *)
(***************************************************************************)
LoopResult == IF dHandle /\ Winners # {} THEN Registry[FirstWinner] ELSE FIF_UNKNOWN

RawProbe == FreeImage_ValidateFIF("RAW", dEnabled, dStream, dt.entry, dOracle).ret

C17_RawTieBreak ==
  dt.pc = "done" =>
    IF LoopResult = "TIFF"
    THEN /\ Probed({"reprobe"}) = << "RAW" >>
         /\ dt.fif = IF RawProbe THEN "RAW" ELSE "TIFF"
    ELSE /\ Probed({"reprobe"}) = << >>
         /\ dt.fif = LoopResult

\* the loop found TIFF in a stream that starts after the entry point of the
\* handle, RAW accepted it too and is the result
C17_Witness ==
  /\ dt.pc = "done"
  /\ dt.entry = MaxEntry
  /\ LoopResult = "TIFF"
  /\ RawProbe
  /\ dt.fif = "RAW"
  /\ Probed({"reprobe"}) = << "RAW" >>

\* RAW would accept the stream, but the loop found another codec first
RawNotAskedAgain ==
  /\ dt.pc = "done"
  /\ LoopResult = "GIF"
  /\ RawProbe
  /\ dt.fif = "GIF"

(***************************************************************************)
(* C18. CompressEnd stores at most 4 bytes: after any sequence of           *)
(* CompressStart and Compress calls, whatever the pixels and the sizes of   *)
(* the output buffers, CompressEnd stores between 0 and 4 bytes into its    *)
(* output array, which Save declares as uint8_t last[4].                    *)
(***************************************************************************)
\* CompressEnd has just returned: lz.last is the number of bytes it stored
CompressEndReturned == lz.pc = "dfill" /\ lz.pos = 0

C18_CompressEndAtMostFour == CompressEndReturned => lz.last \in 0..4

\* the bound of the comment in CompressEnd holds when fewer than 8 bits were
\* left in m_partial at the call
CompressEndDrained ==
  [][lz.pc = "fill" /\ lz'.pc = "dfill" /\ enc.m_partialSize < BITS_PER_BYTE => lz'.last \in 1..4]_vars

\* Compress calls that returned on a full output buffer left whole bytes in
\* m_partial, and CompressEnd stored 5 bytes: 17 bits left and two 9-bit codes
CompressEndOverflows == CompressEndReturned /\ lz.last = 5 /\ lzwSrc = RampImage

(***************************************************************************)
(* C19. The interlaced row walk covers every row once: for an interlaced    *)
(* frame of any height >= 1, Load and Save visit every row index in         *)
(* [0, height) exactly once, the rows of pass 1 (0, 8, ..), then of pass 2  *)
(* (4, 12, ..), of pass 3 (2, 6, ..) and of pass 4 (1, 3, ..), before the   *)
(* walk ends; no row is skipped for small heights.                          *)
(***************************************************************************)
\* the rows of one pass below height, in rising order
PassRows(pass, height) ==
  LET off == g_GifInterlaceOffset[pass]
      inc == g_GifInterlaceIncrement[pass]
      n   == IF height > off THEN (height - off - 1) \div inc + 1 ELSE 0
  IN  [i \in 1..n |-> off + (i - 1) * inc]

InterlaceOrder(height) ==
  PassRows(1, height) \o PassRows(2, height) \o PassRows(3, height) \o PassRows(4, height)

WalkEnded == iw.pc = "done" /\ iw.interlaced

C19_InterlacedWalkCoversRows == WalkEnded => iw.visited = InterlaceOrder(iw.height)

\* the walk is right when no pass is empty, and for the single row
InterlacedWalkTall ==
  WalkEnded /\ (iw.height = 1 \/ iw.height > g_GifInterlaceOffset[2]) => iw.visited = InterlaceOrder(iw.height)

\* no row is visited twice, and the rows visited are a prefix of the order
InterlacedWalkPrefix ==
  iw.interlaced => IsPrefix(iw.visited, InterlaceOrder(iw.height))

\* a frame that is not interlaced is walked from row 0 to the last
PlainWalk == iw.pc = "done" /\ ~iw.interlaced => iw.visited = [i \in 1..iw.height |-> i - 1]

\* height 2: after row 0, y is 8, the second pass starts at row 4, which is
\* not below the height, and the walk ends with row 1 never visited
LoadSkipsRows == WalkEnded /\ iw.op = "Load" /\ iw.height = 2 /\ iw.visited = << 0 >>

SaveSkipsRows == WalkEnded /\ iw.op = "Save" /\ iw.height = 4 /\ iw.visited = << 0 >>

(***************************************************************************)
(* C20. The code width of the compressor: at every point of compression    *)
(* the width lies in [minCodeSize + 1, 12]; it grows by one exactly when    *)
(* nextCode equals 1 << codeSize at the moment a new code is allocated;     *)
(* every code placed in the bit accumulator is smaller than 1 << codeSize   *)
(* at the time it is emitted; and when nextCode reaches 4096 a clear code   *)
(* is emitted at the current width and the table and the width are reset.   *)
(***************************************************************************)
WidthInRange ==
  cw.r.st.m_codeSize \in (cw.r.st.m_minCodeSize + 1)..12

\* a turn of the loop allocated a code: m_nextCode changes nowhere else
Allocated == cw.pc = "loop" /\ cw'.r.st.m_nextCode # cw.r.st.m_nextCode

TableFull == cw.r.st.m_nextCode = MAX_LZW_CODE - 1

\* a step that is a whole call of Compress is many turns, each of which is a
\* step of its own
Turnwise == cw.pc # "call"

WidthGrowth ==
  Turnwise =>
    (cw'.r.st.m_codeSize = cw.r.st.m_codeSize + 1
       <=> Allocated /\ cw.r.st.m_nextCode = Pow2(cw.r.st.m_codeSize))

\* the bytes the step stored
StepBytes == SubSeq(cw'.r.out, Len(cw.r.out) + 1, Len(cw'.r.out))

\* the number of bits the step added to the output bytes and to m_partial
StepWidth == BITS_PER_BYTE * Len(StepBytes) + cw'.r.st.m_partialSize - cw.r.st.m_partialSize

\* the bytes the step stored and m_partial after it, as a number whose lowest
\* bit is the lowest bit m_partial had before the step
StepBits ==
  LET byte(i) == IF i <= Len(StepBytes) THEN StepBytes[i] * Pow2(BITS_PER_BYTE * (i - 1)) ELSE 0
  IN  byte(1) + byte(2) + byte(3) + cw'.r.st.m_partial * Pow2(BITS_PER_BYTE * Len(StepBytes))

\* m_partial holds fewer than 8 bits and nothing above them: every call so
\* far had room for the bytes of its codes
Drained ==
  /\ cw.r.st.m_partialSize < BITS_PER_BYTE
  /\ cw.r.st.m_partial \in 0..(Pow2(cw.r.st.m_partialSize) - 1)

\* the code of the prefix is emitted at the width of the moment, below
\* 1 << width, and after it the clear code when the table is full
CodeEmitted ==
  Allocated =>
    /\ cw.r.st.m_prefix < Pow2(cw.r.st.m_codeSize)
    /\ StepWidth = cw.r.st.m_codeSize + (IF TableFull THEN cw.r.st.m_codeSize ELSE 0)
    /\ Drained =>
         StepBits = cw.r.st.m_partial
                    + cw.r.st.m_prefix * Pow2(cw.r.st.m_partialSize)
                    + (IF TableFull
                       THEN cw.r.st.m_clearCode * Pow2(cw.r.st.m_partialSize + cw.r.st.m_codeSize)
                       ELSE 0)

TableReset ==
  Allocated /\ TableFull =>
    /\ cw.r.st.m_codeSize = 12
    /\ cw.r.st.m_clearCode < Pow2(cw.r.st.m_codeSize)
    /\ cw'.r.st.m_strmap = << >>
    /\ cw'.r.st.m_nextCode = cw.r.st.m_endCode + 1
    /\ cw'.r.st.m_codeSize = cw.r.st.m_minCodeSize + 1

\* the width changes by the growth of one bit and by the reset only
WidthSteps ==
  Turnwise /\ cw'.r.st.m_codeSize # cw.r.st.m_codeSize =>
    \/ cw'.r.st.m_codeSize = cw.r.st.m_codeSize + 1
    \/ Allocated /\ TableFull

C20_CodeWidthInvariant ==
  /\ []WidthInRange
  /\ [][WidthGrowth /\ CodeEmitted /\ TableReset /\ WidthSteps]_vars

\* the image that fills the table: the width went up to 12, the clear code
\* was emitted and codes were allocated again at the first width
C20_Witness ==
  /\ cwSrc = LongImage
  /\ cw.pc = "done"
  /\ cw.r.st.m_codeSize = cw.r.st.m_minCodeSize + 1
  /\ cw.r.st.m_nextCode > cw.r.st.m_endCode + 1
  /\ cw.r.st.m_nextCode < Pow2(cw.r.st.m_codeSize)

\* the width is 12 and the table is one code from full
TableOneFromFull == cw.pc = "loop" /\ TableFull /\ cw.r.st.m_codeSize = 12 /\ Drained

(***************************************************************************)
(* C21. The decoder at the table ceiling: once m_nextCode has reached 4096, *)
(* Decompress creates no further table entry and reads every code at 12     *)
(* bits until it consumes a clear code; after that clear code new codes are *)
(* valid again, from endCode + 1 and at the width minCodeSize + 1.          *)
(***************************************************************************)
AtCeiling == zd.r.st.m_nextCode = MAX_LZW_CODE

\* the step reads a code from the bit buffer
ReadsCode ==
  /\ zd.pc = "loop"
  /\ zd.r.phase = "code"
  /\ zd.r.st.m_partialSize >= zd.r.st.m_codeSize

CodeRead == And32(zd.r.st.m_partial, zd.r.st.m_codeMask)

CeilingHolds ==
  ReadsCode /\ AtCeiling =>
    /\ zd.r.st.m_codeSize = 12
    /\ zd'.r.st.m_partialSize = zd.r.st.m_partialSize - 12
    /\ zd'.r.st.m_strings = zd.r.st.m_strings
    /\ IF CodeRead = zd.r.st.m_clearCode
       THEN /\ zd'.r.st.m_nextCode = zd.r.st.m_endCode + 1
            /\ zd'.r.st.m_codeSize = zd.r.st.m_minCodeSize + 1
            /\ zd'.r.st.m_codeMask = Pow2(zd.r.st.m_minCodeSize + 1) - 1
            /\ zd'.r.st.m_oldCode = MAX_LZW_CODE
       ELSE /\ zd'.r.st.m_nextCode = MAX_LZW_CODE
            /\ zd'.r.st.m_codeSize = 12

\* an entry is created at m_nextCode only, below the ceiling
EntryCreated ==
  zd.pc = "loop" /\ zd'.r.st.m_strings # zd.r.st.m_strings =>
    /\ zd.r.st.m_nextCode < MAX_LZW_CODE
    /\ DOMAIN zd'.r.st.m_strings = DOMAIN zd.r.st.m_strings \cup { zd.r.st.m_nextCode }

ReadsAtCeiling == ReadsCode /\ AtCeiling /\ CodeRead = 0

\* the end code is read while the table is full
EndAtCeiling == zd.pc = "done" /\ zd.r.st.m_done /\ AtCeiling

(***************************************************************************)
(* C22. The frame index built by Open: after a successful Open for reading  *)
(* the list of image descriptor offsets and the list of control block       *)
(* offsets have the same length, the number of image descriptor blocks      *)
(* before the trailer; entry i of the control block list is the offset of   *)
(* the last graphic control extension after image descriptor i - 1 (or the  *)
(* start of the stream) and before image descriptor i, or 0 when there is   *)
(* none; PageCount returns that length.                                     *)
(***************************************************************************)
\* the offset in the file at which piece i starts
PieceStart(h, ps, i) == Len(h) + Len(PiecesBytes(ps, i - 1))

FramePieces(ps) == { i \in 1..Len(ps) : ps[i][1] = GIF_BLOCK_IMAGE_DESCRIPTOR }

ControlPieces(ps) ==
  { i \in 1..Len(ps) : ps[i][1] = GIF_BLOCK_EXTENSION /\ ps[i][2] = GIF_EXT_GRAPHIC_CONTROL }

SetMax(S) == CHOOSE m \in S : \A x \in S : x <= m

\* the k-th frame piece
FramePiece(ps, k) == CHOOSE i \in FramePieces(ps) : Cardinality({ j \in FramePieces(ps) : j <= i }) = k

\* the offset the index holds for a block: that of the byte after its
\* introducer, and after its label for an extension
ExpectedControl(h, ps, i) ==
  LET prev == SetMax({ 0 } \cup { k \in FramePieces(ps) : k < i })
      g    == { j \in ControlPieces(ps) : prev < j /\ j < i }
  IN  IF g = {} THEN 0 ELSE PieceStart(h, ps, SetMax(g)) + 2

FrameIndexOf(h, ps) ==
  /\ tl.image_descriptor_offsets =
       [k \in 1..Cardinality(FramePieces(ps)) |-> PieceStart(h, ps, FramePiece(ps, k)) + 1]
  /\ tl.graphic_control_extension_offsets =
       [k \in 1..Cardinality(FramePieces(ps)) |-> ExpectedControl(h, ps, FramePiece(ps, k))]
  /\ tl.pc = "counted" => tl.pages = Cardinality(FramePieces(ps))

C22_FrameIndex ==
  tl.pc \in { "opened", "counted" } =>
    \A h \in GifHeads, ps \in OpenPieceSeqs :
      tStream = OpenStreamOf(h, ps) => FrameIndexOf(h, ps)

\* a control block before the first frame, none before the second
C22_Witness ==
  /\ tl.pc = "counted"
  /\ tl.pages = 2
  /\ Len(tl.graphic_control_extension_offsets) = 2
  /\ tl.graphic_control_extension_offsets[1] > 0
  /\ tl.graphic_control_extension_offsets[2] = 0

\* the later of two control blocks before a frame is the one kept
LastControlKept ==
  /\ tl.pc = "counted"
  /\ tl.pages = 1
  /\ \E h \in GifHeads : tl.graphic_control_extension_offsets = << Len(h) + 8 + 2 >>

(***************************************************************************)
(* C23. The runs of the SGI decoder: for every control byte c read at a run *)
(* boundary, a byte with the top bit set is followed by exactly c & 0x7F    *)
(* literal bytes copied from the stream, a byte with the top bit clear      *)
(* makes the next byte of the stream be output exactly c & 0x7F times, and  *)
(* the run counter never becomes negative.  Zero bytes before a control     *)
(* byte are passed over, as the count loop does.                            *)
(***************************************************************************)
SgiRle == rd.kind = "SGI" /\ rd.pc = "run" /\ rd.rle

\* the sample the step stored
SgiStored ==
  rDib'[rd.scanline + 1][rd.k * SgiChannels(rd.zsize) + SgiOffset(rd.zsize, rd.chan) + 1]

\* the first sample of the run that starts at the boundary p, as the
\* statement has it: a run of no byte gives none and the next run follows
RECURSIVE RunFirst(_, _)
RunFirst(stream, p) ==
  LET c == SgiCount(stream, p)
      n == BitAndNat(c.cnt, 127)
  IN  IF c.cnt = EOF_SGI \/ c.pos + 1 > Len(stream) THEN [ch |-> EOF_SGI]
      ELSE IF n = 0 THEN RunFirst(stream, c.pos)
      ELSE [ch |-> stream[c.pos + 1], cnt |-> n - 1, pos |-> c.pos + 1,
            val |-> IF BitAndNat(c.cnt, 128) # 0 THEN 0 - 1 ELSE stream[c.pos + 1]]

\* a call at a run boundary: the row starts at an entry of the row index, or
\* the run before is used up
RunBoundary ==
  SgiRle /\ (rd.k = 0 \/ rd.cnt = 0) =>
    \E p \in IF rd.k = 0 THEN 0..MaxOffset ELSE { rd.pos } :
      LET e == RunFirst(rFile, p)
      IN  IF e.ch = EOF_SGI THEN rd'.pc = "false"
          ELSE /\ rd'.pc # "false"
               /\ rd'.cnt = e.cnt /\ rd'.val = e.val /\ rd'.pos = e.pos
               /\ SgiStored = e.ch

\* a call inside a run
RunInside ==
  SgiRle /\ rd.k # 0 /\ rd.cnt > 0 =>
    IF rd.val = 0 - 1 /\ rd.pos >= Len(rFile) THEN rd'.pc = "false"
    ELSE /\ rd'.cnt = rd.cnt - 1
         /\ SgiStored = IF rd.val = 0 - 1 THEN rFile[rd.pos + 1] ELSE rd.val

SgiCounter == rd.kind = "SGI" => rd.cnt >= 0

C23_SgiRunSemantics == []SgiCounter /\ [][RunBoundary /\ RunInside]_vars

NoEmptyLiteral == \A i \in 1..Len(rFile) : rFile[i] # 128

\* the statement holds on the streams without the control byte 0x80
SgiRunsWithoutEmptyLiteral ==
  /\ [](NoEmptyLiteral => SgiCounter)
  /\ [][NoEmptyLiteral => RunBoundary /\ RunInside]_vars

\* the control byte 0x80 starts a literal run of no byte: the counter is -1
\* after the call, which copied a byte
SgiCounterNegative ==
  /\ rd.kind = "SGI"
  /\ rd.cnt = 0 - 1
  /\ rd.val = 0 - 1
  /\ rFile = << 1, 5, 128, 4 >>
  /\ rDib[1] = << 5, 4 >>

(***************************************************************************)
(* C24. The runs of the PCX line decoder: for every byte b read at a run    *)
(* boundary of a run-length encoded line, when the top two bits of b are    *)
(* set the next byte is output exactly b & 0x3F times, the end of the line  *)
(* alone cutting the run short, and otherwise b itself is output once.      *)
(***************************************************************************)
PcxRle == rd.kind = "PCX" /\ rd.pc = "run" /\ rd.rle /\ rd.written < rd.lineLength

\* the byte the step stored in the line
PcxStored == rd'.line[rd.written + 1]

\* the first byte of the run that starts at index p of ReadBuf, as the
\* statement has it: a run of no byte gives none and the next run follows
RECURSIVE PcxRunFirst(_, _)
PcxRunFirst(buf, p) ==
  LET b == BufAt(buf, p)
      n == BitAndNat(b, 63)
  IN  IF BitAndNat(b, 192) # 192 THEN [ch |-> b, count |-> 0, ReadPos |-> p + 1]
      ELSE IF n = 0 THEN PcxRunFirst(buf, p + 2)
      ELSE [ch |-> BufAt(buf, p + 1), count |-> n - 1, ReadPos |-> p + 2]

\* a turn of the loop at a run boundary
PcxRunBoundary ==
  PcxRle /\ rd.count = 0 =>
    LET d == PcxRefill(rd, rFile)
        e == PcxRunFirst(d.ReadBuf, d.ReadPos)
    IN  /\ PcxStored = e.ch
        /\ rd'.count = e.count
        /\ rd'.ReadPos = e.ReadPos

\* a turn of the loop inside a run
PcxRunInside ==
  PcxRle /\ rd.count > 0 =>
    /\ PcxStored = rd.value
    /\ rd'.count = rd.count - 1
    /\ rd'.ReadPos = rd.ReadPos

\* a run ends with the line: the next line starts at a run boundary
PcxLineCutsRun == rd.kind = "PCX" /\ rd.rle /\ rd.written = 0 => rd.count = 0

C24_PcxRunSemantics == []PcxLineCutsRun /\ [][PcxRunBoundary /\ PcxRunInside]_vars

NoEmptyRun == \A i \in 1..Len(rFile) : rFile[i] # 192

\* the statement holds on the streams without the byte 0xC0
PcxRunsWithoutEmptyRun ==
  []PcxLineCutsRun /\ [][NoEmptyRun => PcxRunBoundary /\ PcxRunInside]_vars

\* the byte 0xC0 starts a run of no byte: the byte after it is stored and the
\* count, a uint8_t, is 255 after the turn
PcxCountWraps ==
  /\ rd.kind = "PCX"
  /\ rd.rle
  /\ rd.count = 255
  /\ rd.written = 1
  /\ rd.line[1] = 8
  /\ SubSeq(rFile, 1, 2) = << 192, 8 >>

(***************************************************************************)
(* C29. A PCX file that is not compressed (encoding 0): decoding row y      *)
(* consumes exactly L = bytes_per_line x planes bytes of the stream, so     *)
(* row y is built from the bytes [y*L, (y+1)*L) after the header and no     *)
(* byte of the stream is skipped between rows.  Positions are counted from  *)
(* the end of the 128-byte header; the stream holds all the rows.           *)
(***************************************************************************)
PcxPlain ==
  /\ rd.kind = "PCX" /\ rd.pc = "run" /\ ~rd.rle
  /\ Len(rFile) >= rd.height * rd.lineLength

\* the bytes of the row the step stored in the dib
PcxPlainStored == SubSeq(rDib'[rd.height - rd.y], 1, MIN(rd.pitch, rd.lineLength))

PcxPlainRow ==
  PcxPlain =>
    /\ rd.pos = rd.y * rd.lineLength
    /\ rd'.pos = (rd.y + 1) * rd.lineLength
    /\ PcxPlainStored = SubSeq(rFile, rd.y * rd.lineLength + 1,
                               rd.y * rd.lineLength + MIN(rd.pitch, rd.lineLength))

C29_PcxPlainLinePerRow == [][PcxPlainRow]_vars

\* a row is the bytes at the position of the stream its read starts at
PcxPlainRowFromPos ==
  [][PcxPlain /\ rd.pos + rd.lineLength <= Len(rFile) =>
       PcxPlainStored = SubSeq(rFile, rd.pos + 1, rd.pos + MIN(rd.pitch, rd.lineLength))]_vars

\* with lines of one byte the rows follow one another
PcxPlainOneByteLines == [][PcxPlain /\ rd.lineLength = 1 => PcxPlainRow]_vars

\* after the first row of lines of 2 bytes the stream is at its byte 3: the
\* byte 2 is skipped as the rest of a line of which 1 byte was written
PcxPlainSkips ==
  /\ rd.kind = "PCX" /\ ~rd.rle
  /\ rd.lineLength = 2 /\ rd.height = 2
  /\ rd.y = 1
  /\ rd.pos = 3
  /\ Len(rFile) >= 4

(***************************************************************************)
(* C30. The rows of a PCX image of 4 planes of 1 bit: every pixel x in      *)
(* [0, width) of each row is stored as a nibble in the row of the dib, the  *)
(* last pixel of an odd width too, and every bit of a plane read for        *)
(* x < width comes from inside the line of bytes_per_line x 4 bytes.        *)
(***************************************************************************)
\* the pixel x of a row of 4 bits per pixel
NibbleAt(row, x) ==
  IF x % 2 = 0 THEN row[(x \div 2) + 1] \div 16 ELSE row[(x \div 2) + 1] % 16

\* the step that writes the row of the dib
RowStored == pn.d.pc = "planes" /\ pn'.d.pc # "planes"

RowComplete ==
  RowStored =>
    \A x \in 0..(pn.width - 1) : NibbleAt(pn'.dib[pn.d.height - pn.d.y], x) = pn.buffer[x + 1]

ReadsInsideLine == pn.outside = {}

C30_PlaneRowsComplete == []ReadsInsideLine /\ [][RowComplete]_vars

\* the rows of an even width are complete
EvenRowsComplete == [][pn.width % 2 = 0 => RowComplete]_vars

\* of an odd width the last pixel alone is missing
OddRowsButLast ==
  [][RowStored =>
       \A x \in 0..(pn.width - 2) :
         NibbleAt(pn'.dib[pn.d.height - pn.d.y], x) = pn.buffer[x + 1]]_vars

\* a line of bytes_per_line bytes per plane that holds the width is read inside
WideLinesReadInside == pn.width <= 8 * pn.bytes_per_line => ReadsInsideLine

\* width 3: the third pixel is 15 in the buffer and 0 in the row of the dib
OddLastPixelLost ==
  /\ pn.d.pc = "true"
  /\ pn.width = 3
  /\ pn.d.height = 1
  /\ pn.buffer = << 15, 15, 15 >>
  /\ pn.dib[1][1] = 255
  /\ NibbleAt(pn.dib[1], 2) = 0

\* width 9 with bytes_per_line 1: the ninth pixel of the fourth plane is read
\* at line[4], past the 4 bytes of the line
PlaneReadOutsideLine ==
  /\ pn.width = 9
  /\ pn.bytes_per_line = 1
  /\ pn.outside = { 4 }

(***************************************************************************)
(* C25. A BMP whose header is valid and whose compression tag is not one    *)
(* the loader decodes for its bit depth is rejected with the diagnostic of  *)
(* an unsupported compression, which is not a diagnostic of corrupt data,   *)
(* and no bitmap is returned: for every depth 1, 4, 8, 16, 24, 32 and for   *)
(* the Windows and the OS/2 2.x loaders.  The file is whole, its pixels are *)
(* asked for and the memory is there.                                       *)
(***************************************************************************)
\* the tags the loader decodes at a depth
DecodedTags(bit_count) ==
  IF bit_count <= 8 THEN { BI_RGB, BI_RLE8, BI_RLE4 }
  ELSE { BI_RGB, BI_BITFIELDS, BI_ALPHABITFIELDS }

TagUnsupported ==
  /\ hFile.cut = Len(hFile.bytes)
  /\ ~hl.header_only
  /\ hl.memory
  /\ hFile.compression \notin DecodedTags(hFile.bpp)

TagLoadEnded == hl.pc \in { "done", "rle" }

TagRejected ==
  /\ hl.pc = "done"
  /\ hl.ret = "null"
  /\ hl.msg = "compression type not supported"

C25_UnsupportedCompression == TagUnsupported /\ TagLoadEnded => TagRejected

\* it holds at the depths 1, 4 and 8
PalettizedTagRejected ==
  TagUnsupported /\ TagLoadEnded /\ hFile.bpp <= 8 => TagRejected

\* the diagnostic is given for no other whole file
TagRejectedOnlyUnsupported ==
  hFile.cut = Len(hFile.bytes) /\ hl.msg = "compression type not supported" =>
    hFile.bpp <= 8 /\ hFile.compression \notin DecodedTags(hFile.bpp)

\* a Windows BMP of 24 bits with the tag 4 (BI_JPEG): the bitmap is returned,
\* its pixels read as if they were not compressed
TagIgnored ==
  /\ TagUnsupported
  /\ hFile.type = 40 /\ hFile.bpp = 24 /\ hFile.compression = 4
  /\ hl.pc = "done"
  /\ hl.ret = "dib"
  /\ hl.dib.loaded

\* the same of the OS/2 2.x loader at 16 bits with the tag 1 (BI_RLE8)
TagIgnoredOS22X ==
  /\ TagUnsupported
  /\ hFile.type = 64 /\ hFile.bpp = 16 /\ hFile.compression = 1
  /\ hl.pc = "done"
  /\ hl.ret = "dib"

(***************************************************************************)
(* C26. The indices of the string table: for every minimum code size a      *)
(* file can carry and every sequence of compressed bytes, Decompress and    *)
(* ClearDecompressorTable read and write the entries of m_strings at the    *)
(* indices 0..4095 only, the table having 4096 entries.                     *)
(***************************************************************************)
\* the loop is about to take a code from the bit buffer
CodeTaken ==
  /\ zd.pc = "loop"
  /\ ~zd.r.halted
  /\ zd.r.phase = "code"
  /\ zd.r.st.m_partialSize >= zd.r.st.m_codeSize

TakenCode == And32(zd.r.st.m_partial, zd.r.st.m_codeMask)

\* the code is neither above the next code, nor the end code, nor the clear code
CodeAccepted ==
  /\ TakenCode <= zd.r.st.m_nextCode
  /\ TakenCode # zd.r.st.m_endCode
  /\ TakenCode # zd.r.st.m_clearCode

\* the entries Decompress reads and writes for the code
IndicesUsed ==
  { TakenCode } \cup
  (IF zd.r.st.m_oldCode # MAX_LZW_CODE /\ zd.r.st.m_nextCode < MAX_LZW_CODE
   THEN { zd.r.st.m_nextCode, zd.r.st.m_oldCode }
   ELSE {})

\* ClearDecompressorTable writes the entries below the clear code
ClearedInRange == zd.r.st.m_clearCode <= MAX_LZW_CODE

DecodeInRange == CodeTaken /\ CodeAccepted => IndicesUsed \subseteq 0..(MAX_LZW_CODE - 1)

C26_TableIndicesInRange == ClearedInRange /\ DecodeInRange

\* it holds for the minimum code sizes up to 11
SmallCodeSizesInRange == zIn.minCodeSize <= 11 => ClearedInRange /\ DecodeInRange

\* minimum code size 12: the next code is 4098 after Initialize, the code
\* 4098 of 13 bits is accepted and m_strings[4098] is read
CodeBeyondTable ==
  /\ zIn.minCodeSize = 12
  /\ zIn.stream = << 2, 16 >>
  /\ CodeTaken
  /\ CodeAccepted
  /\ TakenCode = 4098

\* the same code is the old code of the next turn
OldCodeBeyondTable ==
  /\ zIn.minCodeSize = 13
  /\ zd.pc = "fault"
  /\ zd.r.st.m_oldCode = 4098

(***************************************************************************)
(* C27. Compositing in playback mode stays inside the canvas: every pixel   *)
(* written, by the background fill of the rectangle of a frame restored to  *)
(* background and by the copy of a decoded frame, is inside the canvas of   *)
(* logicalwidth x logicalheight pixels, for every rectangle a file can      *)
(* declare, those that pass the right or the bottom edge included.          *)
(***************************************************************************)
C27_CompositingInsideCanvas == pOob = {}

\* the frames whose rectangles are inside the logical screen are written inside
RectsInsideWrittenInside ==
  (\A i \in 1..Len(pFrames) : RectInside(pFrames[i])) => pOob = {}

\* a write outside is past the end of the canvas, by less than a row
WritesPastEnd ==
  \A addr \in pOob :
    addr >= LogicalWidth * LogicalHeight /\ addr < LogicalWidth * (LogicalHeight + 1)

\* the copy of a frame that starts at column 1 and is as wide as the screen:
\* its last pixel of the top row is stored past the end of the canvas
CopyPastCanvas ==
  /\ Len(pFrames) = 1
  /\ pFrames[1].left = 1 /\ pFrames[1].width = LogicalWidth
  /\ pp.pc = "done"
  /\ pp.decoded = { 0 }
  /\ pOob = { LogicalWidth * LogicalHeight }

\* the same of the background fill, before any frame is decoded
FillPastCanvas ==
  /\ Len(pFrames) = 2
  /\ pp.pc = "render"
  /\ pp.page = 1
  /\ pp.decoded = {}
  /\ pOob = { LogicalWidth * LogicalHeight }

(***************************************************************************)
(* C28. A frame without a control block (its stored control-block offset    *)
(* is 0) in playback: the compositing takes it for a frame of disposal      *)
(* unspecified or leave with no transparent index, the values the raw load  *)
(* of the frame reports, in the backward search for the start frame and in  *)
(* the forward render.                                                      *)
(***************************************************************************)
\* the frame of the entry i of pageinfo: the entries run from the page asked
\* for backwards
EntryFrame(i) == pFrames[pp.end - i + 2]

\* the entries of the frames without a control block
BareEntriesLeave ==
  pp.pc \in { "search", "render", "done" } =>
    \A i \in DOMAIN pp.pageinfo :
      ~EntryFrame(i).gce =>
        pp.pageinfo[i].disposal_method \in { GIF_DISPOSAL_UNSPECIFIED, GIF_DISPOSAL_LEAVE }

\* the backward search on a frame without a control block, other than the
\* page asked for: it stops there when the frame fills the screen and goes on
\* when it does not
BareSearch ==
  pp.pc = "search" /\ pp.start # pp.end /\ ~pFrames[pp.start + 1].gce =>
    LET frame == pFrames[pp.start + 1]
        full  == frame.left = 0 /\ frame.top = 0
                 /\ frame.width = LogicalWidth /\ frame.height = LogicalHeight
    IN  IF full THEN pp'.pc = "render" /\ pp'.start = pp.start
        ELSE pp'.start = (IF pp.start = 0 THEN 0 ELSE pp.start - 1)

\* the forward render of a frame without a control block: the frame is
\* decoded and copied
BareRender ==
  pp.pc = "render" /\ ~pFrames[pp.page + 1].gce => pp.page \in pp'.decoded

C28_BareFramesLeave == []BareEntriesLeave /\ [][BareSearch /\ BareRender]_vars

\* the page asked for is decoded and copied whatever its control block
LastPageDecoded == [][pp.pc = "render" /\ pp.page = pp.end => pp.page \in pp'.decoded]_vars

\* a frame with a control block has the disposal of its packed byte
ControlledEntries ==
  pp.pc \in { "search", "render", "done" } =>
    \A i \in DOMAIN pp.pageinfo :
      EntryFrame(i).gce =>
        pp.pageinfo[i].disposal_method = DisposalMethod(EntryFrame(i).packed)

\* two frames without control blocks: the entry of the first has the
\* disposal restore to background, and the render fills its rectangle with
\* the background instead of decoding it
BareFrameFilled ==
  /\ Len(pFrames) = 2
  /\ ~pFrames[1].gce /\ ~pFrames[2].gce
  /\ pFrames[1].width = 1
  /\ pp.pc = "done"
  /\ pp.pageinfo[2].disposal_method = GIF_DISPOSAL_BACKGROUND
  /\ pp.decoded = { 1 }

\* the first frame fills the screen: the search drops it and starts at the
\* second
BareFrameDropped ==
  /\ Len(pFrames) = 2
  /\ ~pFrames[1].gce
  /\ pFrames[1].width = LogicalWidth /\ pFrames[1].height = LogicalHeight /\ pFrames[1].left = 0
  /\ pp.pc = "render"
  /\ pp.start = 1
  /\ Len(pp.pageinfo) = 1

====
